---- MODULE Spec2Model ----
(***************************************************************************)
(* Verification model of the per-invocation execution engine of the agent  *)
(* core (packages/core/src/agent): tool-error serialisation (error-utils), *)
(* the tool execution wrapper, operation contexts with their shared abort  *)
(* controller, and the sub-agent bail protocol.                            *)
(***************************************************************************)
EXTENDS Integers, Sequences, FiniteSets, TLC

\* ------------------------------------------------------------------------
\* Bounds of the model
\* ------------------------------------------------------------------------
MaxObjs == 2        \* objects on the JavaScript heap of a thrown value
StackLimit == 3     \* call-stack depth after which the engine raises RangeError
MaxOps == 2         \* operation contexts of one call chain
MaxSteps == 1       \* step-finish events of one model invocation
MaxCalls == 2       \* calls whose context map is resolved
MaxRecSteps == 2    \* steps of the operation whose step records are persisted
MaxEvents == 2      \* hook dispatches of one call
MaxChainSteps == 3  \* steps of all operations of one delegation chain
MaxParts == 2       \* parts of the model's raw stream

VARIABLES
  heap,     \* JavaScript heap: address -> object (kind and one optional field)
  eu,       \* error-utils harness: the last input and the value returned
  tw,       \* one invocation of the tool execution wrapper
  ops,      \* operation contexts, by creation order
  ctrl,     \* abort controllers: aborted flag and abort reason
  ext,      \* the caller-supplied external AbortSignal
  cx,       \* context maps: the Map instances and the context of each call
  rs,       \* step recording of one operation: steps, persisted count, writes
  hk,       \* hook dispatch of one call: configured hooks and the dispatches
  cl,       \* completion of one call: flush attempts, trace, terminal hooks
  cs,       \* conversationSteps arrays of a delegation chain
  st,       \* one streamText call: raw stream, delivered streams, final text
  gd,       \* one generateText call: its output guardrails and their invocations
  pt,       \* one prepareTools call: the tool lists and the prepared tool set
  so        \* one streamObject call: the stream, onFinish and the object promise

vars == <<heap, eu, tw, ops, ctrl, ext, cx, rs, hk, cl, cs, st, gd, pt, so>>

\* The components outside the error utilities, the tool wrapper and the chain.
Rest == <<cx, rs, hk, cl, cs, st, gd, pt, so>>

\* ------------------------------------------------------------------------
\* JavaScript values
\* ------------------------------------------------------------------------
Addrs == 1..MaxObjs

\* A value is a primitive, a function, or a reference to a heap object.
Val(t, s, a) == [t |-> t, s |-> s, a |-> a]
Undefined == Val("undefined", "undefined", 0)
Null == Val("null", "null", 0)
Str(s) == Val("string", s, 0)
Fn == Val("function", "fn", 0)
Ref(a) == Val("ref", "", a)

\* What a heap object's field or array element may hold.
FieldVals == {Str("s")} \cup {Ref(a) : a \in Addrs}

\* Kinds of heap objects sanitizeErrorValue tells apart ("map": a Map or Set).
\* The field of an object is an own enumerable property, of an array an element.
Kinds == {"plain", "array", "error", "date", "map"}

\* An object with at most one own field (an array: at most one element).
NoField == Undefined
HeapObjs == {[kind |-> k, has |-> FALSE, field |-> NoField] : k \in Kinds}
            \cup [kind : Kinds, has : {TRUE}, field : FieldVals]
Heaps == [Addrs -> HeapObjs]

\* The heap of a program that allocated no such object: every cell an empty
\* plain object.
EmptyHeap == [a \in Addrs |-> [kind |-> "plain", has |-> FALSE, field |-> NoField]]

\* ------------------------------------------------------------------------
\* Values returned to the model (JSON-safe payload values)
\* ------------------------------------------------------------------------
Out(t, toks, items) == [t |-> t, toks |-> toks, items |-> items]
OPrim(v) == Out(v.t, <<v.s>>, <<>>)
OStr(toks) == Out("string", toks, <<>>)
OArr(items) == Out("array", <<>>, items)
OErrObj(name, message, stack) == Out("object", <<name, message, stack>>, <<>>)
OTrue == Out("boolean", <<"true">>, <<>>)
\* The engine's RangeError (maximum call stack size exceeded), thrown.
OThrow == Out("throw", <<"RangeError">>, <<>>)

CircularMarker == "[Circular]"

\* ------------------------------------------------------------------------
\* safeStringify (@voltagent/internal/utils): JSON text as a token sequence,
\* a revisited object on the current path printed as the [Circular] marker.
\* ------------------------------------------------------------------------
Open(kind) == IF kind = "array" THEN "[" ELSE "{"
Close(kind) == IF kind = "array" THEN "]" ELSE "}"

RECURSIVE StringifyTokens(_, _, _)
StringifyTokens(h, v, seen) ==
  IF v.t # "ref" THEN <<v.s>>
  ELSE IF v.a \in seen THEN <<CircularMarker>>
  ELSE LET o == h[v.a] IN
       IF o.kind = "date" THEN <<"iso-date">>
       ELSE <<Open(o.kind)>>
            \o (IF o.has THEN StringifyTokens(h, o.field, seen \cup {v.a}) ELSE <<>>)
            \o <<Close(o.kind)>>

safeStringify(h, v) == OStr(StringifyTokens(h, v, {}))

\* ------------------------------------------------------------------------
\* sanitizeErrorValue (error-utils.ts)
\* ------------------------------------------------------------------------
\* String(value) of an object, the fallback of the catch clause.
sanitizeObjectAsString(h, v) == OStr(<<"[object Object]">>)

\* The branches after the array test: Error, Date, Map/Set, other objects.
sanitizeObject(h, v) ==
  LET o == h[v.a] IN
  CASE o.kind = "error" -> OErrObj("Error", "nested", "stack")
    [] o.kind = "date" -> OStr(<<"iso-date">>)
    [] o.kind = "map" -> safeStringify(h, v)
    [] OTHER -> safeStringify(h, v)

RECURSIVE sanitizeErrorValue(_, _, _)
sanitizeErrorValue(h, v, depth) ==
  IF depth > StackLimit THEN OThrow
  ELSE IF v.t \in {"null", "undefined"} THEN OPrim(v)
  ELSE IF v.t \in {"string", "number", "boolean"} THEN OPrim(v)
  ELSE IF h[v.a].kind = "array"
       THEN LET o == h[v.a]
                items == IF o.has THEN <<sanitizeErrorValue(h, o.field, depth + 1)>>
                         ELSE <<>>
            IN IF \E i \in 1..Len(items) : items[i].t = "throw"
               THEN OThrow
               ELSE OArr(items)
       ELSE sanitizeObject(h, v)

Threw(out) == out.t = "throw"
HasMarker(out) == out.t = "string" /\ \E i \in 1..Len(out.toks) : out.toks[i] = CircularMarker

\* ------------------------------------------------------------------------
\* buildToolErrorResult (error-utils.ts)
\* ------------------------------------------------------------------------
\* A thrown Error: name, message, stack, cause and its other own properties.
OwnKeys == {"toolCallId", "toolName", "error", "config"}
PropVals == {Str("x"), Undefined, Fn, Ref(1)}
CauseVals == {Undefined, Str("why"), Ref(1)}
ErrorNames == {"Error", "ToolDeniedError"}

MkError(name, stack, cause, props) ==
  [name |-> name, message |-> "boom", stack |-> stack, cause |-> cause, props |-> props]

\* Own properties over the key set K: config holds any value, the others a string.
PropsOver(K) == {p \in [K -> PropVals] : \A k \in K \ {"config"} : p[k] = Str("x")}
ErrorProps == UNION {PropsOver(K) : K \in SUBSET OwnKeys}
NoProps == [k \in {} |-> Undefined]
Errors ==
  {MkError(n, s, c, p) :
     n \in ErrorNames, s \in {Str("stack"), Undefined}, c \in CauseVals, p \in ErrorProps}
PlainError == MkError("Error", Str("stack"), Undefined, NoProps)

\* Own property names the copy loop skips.
SkippedKeys == {"name", "message", "stack", "cause", "error"}

\* Own properties the loop copies: not skipped, not undefined, not a function.
CopiedKeys(e) ==
  {k \in DOMAIN e.props : k \notin SkippedKeys /\ e.props[k].t \notin {"undefined", "function"}}

BaseKeys == {"error", "name", "message", "stack", "toolCallId", "toolName"}

causeResult(h, e) ==
  IF e.cause.t = "ref" /\ h[e.cause.a].kind = "error"
  THEN OErrObj("Error", "nested", "stack")
  ELSE sanitizeErrorValue(h, e.cause, 1)

\* The payload: the six fixed fields, then cause, then the copied own
\* properties assigned over whatever is already there.
buildPayload(h, e, toolCallId, toolName) ==
  LET base == [k \in BaseKeys |->
                 CASE k = "error" -> OTrue
                   [] k = "name" -> OPrim(Str(e.name))
                   [] k = "message" -> OPrim(Str(e.message))
                   [] k = "stack" -> OPrim(e.stack)
                   [] k = "toolCallId" -> OPrim(Str(toolCallId))
                   [] OTHER -> OPrim(Str(toolName))]
      withCause == IF e.cause.t # "undefined" THEN {"cause"} ELSE {}
      copied == CopiedKeys(e)
  IN [k \in BaseKeys \cup withCause \cup copied |->
        IF k \in copied THEN sanitizeErrorValue(h, e.props[k], 1)
        ELSE IF k = "cause" THEN causeResult(h, e)
        ELSE base[k]]

\* The call: returns the payload, or throws when a sanitisation throws.
buildToolErrorResult(h, e, toolCallId, toolName) ==
  LET p == buildPayload(h, e, toolCallId, toolName) IN
  [threw |-> \E k \in DOMAIN p : Threw(p[k]), payload |-> p]

\* ------------------------------------------------------------------------
\* Harness applying the two functions of error-utils.ts to drawn inputs
\* ------------------------------------------------------------------------
NoPayload == [threw |-> FALSE, payload |-> [k \in {} |-> OTrue]]
EuIdle ==
  [pc |-> "idle", v |-> Undefined, e |-> PlainError, callId |-> "", toolName |-> "",
   out |-> OPrim(Undefined), res |-> NoPayload]

SanInputs == {Undefined, Null, Str("text")} \cup {Ref(a) : a \in Addrs}
CallIds == {"call-1", "call-2"}
ToolNames == {"demo-tool"}

\* A heap with a plain object that points back to itself (circular.self =
\* circular) at address 1 and an array that contains itself at address 2.
DemoHeap ==
  [a \in Addrs |->
     IF a = 1 THEN [kind |-> "plain", has |-> TRUE, field |-> Ref(1)]
     ELSE [kind |-> "array", has |-> TRUE, field |-> Ref(a)]]

Sanitize(v) ==
  /\ eu.pc = "idle"
  /\ eu' = [eu EXCEPT !.pc = "sanitized", !.v = v, !.out = sanitizeErrorValue(heap, v, 1)]
  /\ UNCHANGED <<heap, tw, ops, ctrl, ext, Rest>>

Build(e, c, t) ==
  /\ eu.pc = "idle"
  /\ eu' = [eu EXCEPT !.pc = "built", !.e = e, !.callId = c, !.toolName = t,
                       !.res = buildToolErrorResult(heap, e, c, t)]
  /\ UNCHANGED <<heap, tw, ops, ctrl, ext, Rest>>

\* An Error whose only custom own property is config, holding v.
ErrorWithConfig(v) == MkError("Error", Str("stack"), Undefined, [k \in {"config"} |-> v])

\* ------------------------------------------------------------------------
\* Errors and abort reasons of a call chain (agent/errors.ts)
\* ------------------------------------------------------------------------
Err(type, msg) == [type |-> type, msg |-> msg]
NoErr == Err("none", "")
ModelError == Err("Error", "model failed")
PreError == Err("Error", "input rejected")

createBailError(agentName, response) == Err("BailError", response)
isBailError(e) == e.type = "BailError"
isClientHTTPError(e) == e.type = "ToolDeniedError"
isToolDeniedError(e) == e.type = "ToolDeniedError"
createAbortError(msg) == Err("AbortError", msg)
createVoltAgentError(e) == Err("VoltAgentError", e.msg)

\* Reasons an external signal is aborted with: a string, and an object that
\* carries no message.
ExtReasons == {Err("string", "timeout"), Err("object", "")}

\* The reason text the abort listener extracts (ts-pattern match).
abortReasonText(reason) ==
  IF reason.type = "object" THEN "Operation cancelled" ELSE reason.msg

cancellationErrorFor(reason) ==
  IF isClientHTTPError(reason) THEN reason ELSE createAbortError(abortReasonText(reason))

\* ------------------------------------------------------------------------
\* Operation contexts
\* ------------------------------------------------------------------------
Ops == 1..MaxOps
CallKinds == {"generateText", "streamText"}
Responses == {"", "final answer"}
ModelTexts == {"supervisor text"}
FinishReasons == {"stop", "error"}
\* Finish reasons that do not report a failure.
SuccessReasons == {"stop", "length", "tool-calls", "bail"}

NoBail == [set |-> FALSE, agentName |-> "", response |-> ""]
Pending == [status |-> "pending", text |-> "", finishReason |-> "", error |-> NoErr]
Resolved(text, fr) == [status |-> "resolved", text |-> text, finishReason |-> fr, error |-> NoErr]
Rejected(e) == [status |-> "rejected", text |-> "", finishReason |-> "", error |-> e]
EndCall(e, text, fr) == [error |-> e, text |-> text, finishReason |-> fr]

NoOp ==
  [pc |-> "none", kind |-> "generateText", parent |-> 0, ctl |-> 0, bridged |-> FALSE,
   listener |-> FALSE, isActive |-> TRUE, cancellationError |-> NoErr,
   cancelSets |-> 0, bailedResult |-> NoBail, steps |-> 0, child |-> 0,
   err |-> NoErr, errCalled |-> FALSE, endAborted |-> FALSE, extFired |-> FALSE,
   result |-> Pending, onEnd |-> <<>>, onError |-> 0,
   outcome |-> Pending, textPromise |-> Pending, verdicts |-> {}]

NoCtrl == [aborted |-> FALSE, reason |-> NoErr]
NoSignal == [aborted |-> FALSE, reason |-> NoErr]

Live(o) == ops[o].pc # "none"
Done(o) == ops[o].pc = "done"
Aborted(o) == ctrl[ops[o].ctl].aborted
Reason(o) == ctrl[ops[o].ctl].reason


\* createOperationContext: the controller a new operation uses. A delegated
\* operation uses the controller of its parent, a top-level one a new one.
FreshController(o, parent) == o
OpController(o, parent) == IF parent # 0 THEN ops[parent].ctl ELSE o

\* createOperationContext: the external signal is bridged only when the
\* operation created its own controller.
OpBridged(parent, withSignal) == parent = 0 /\ withSignal

\* The reason the bridge aborts the controller with.
DefaultAbortReason(r) == Err("DOMException", "This operation was aborted")
BridgeReason(r) == r

\* setupAbortSignalListener: the listener body, run when the signal fires.
AbortListener(op, reason) ==
  IF isBailError(reason)
  THEN [op EXCEPT !.isActive = FALSE, !.verdicts = @ \cup {<<"listener", "bail">>}]
  ELSE LET ce == cancellationErrorFor(reason) IN
       [op EXCEPT !.isActive = FALSE, !.cancellationError = ce, !.cancelSets = @ + 1,
                  !.onEnd = Append(@, EndCall(ce, "", "")),
                  !.verdicts = @ \cup {<<"listener", "failure">>}]

\* AbortController.abort(reason): the first abort sets the reason and runs the
\* listeners registered on the signal; a later abort does nothing.
Abort(opsf, c, reason) ==
  IF ctrl[c].aborted
  THEN [ctrl |-> ctrl, ops |-> opsf]
  ELSE [ctrl |-> [ctrl EXCEPT ![c] = [aborted |-> TRUE, reason |-> reason]],
        ops |-> [o \in Ops |->
                   IF opsf[o].listener /\ opsf[o].ctl = c
                   THEN AbortListener(opsf[o], reason)
                   ELSE opsf[o]]]


\* ------------------------------------------------------------------------
\* Operations of a call chain
\* ------------------------------------------------------------------------
ChainFrame == <<heap, eu, tw, Rest>>

\* createOperationContext, at the entry of generateText / streamText. A
\* delegated operation is created by a tool executed during the parent's model
\* invocation (toTool, the delegate tool) with parentOperationContext; the
\* collaborator starts no tool call once the signal it was given is aborted.
Create(o, parent, kind, withSignal) ==
  /\ ops[o].pc = "none"
  /\ \A p \in Ops : p < o => Live(p)
  /\ IF parent = 0
     THEN o = 1
     ELSE /\ ops[parent].pc \in {"model", "streaming"}
          /\ ops[parent].child = 0
          /\ ~Aborted(parent)
          /\ kind = "generateText"
  /\ ops' = [p \in Ops |->
               IF p = o
               THEN [NoOp EXCEPT !.pc = "pre", !.kind = kind, !.parent = parent,
                                 !.ctl = OpController(o, parent),
                                 !.bridged = OpBridged(parent, withSignal)]
               ELSE IF p = parent THEN [ops[p] EXCEPT !.child = o]
               ELSE ops[p]]
  /\ UNCHANGED <<ctrl, ext, ChainFrame>>

\* The external signal fires: the bridge listener of createOperationContext
\* aborts the controller of every operation that bridged it.
ExtAbort(reason) ==
  /\ ~ext.aborted
  /\ ext' = [aborted |-> TRUE, reason |-> reason]
  /\ LET bs == {o \in Ops : Live(o) /\ ops[o].bridged} IN
     IF bs = {}
     THEN UNCHANGED <<ops, ctrl>>
     ELSE LET o == CHOOSE b \in bs : TRUE
              fired == [p \in Ops |->
                          IF p \in bs /\ ~Done(p)
                          THEN [ops[p] EXCEPT !.extFired = TRUE] ELSE ops[p]]
              a == Abort(fired, ops[o].ctl, BridgeReason(reason))
          IN /\ ctrl' = a.ctrl
             /\ ops' = a.ops
  /\ UNCHANGED ChainFrame

\* generateText / streamText up to the model invocation: input guardrails,
\* prepareExecution, the onStart hook, then setupAbortSignalListener. streamText
\* returns its result object right after starting the stream.
SetupListener(o) ==
  /\ ops[o].pc = "pre"
  /\ ops' = [ops EXCEPT ![o] =
               [@ EXCEPT !.listener = TRUE,
                         !.pc = IF ops[o].kind = "generateText" THEN "model" ELSE "streaming",
                         !.outcome = IF ops[o].kind = "streamText"
                                     THEN Resolved("", "") ELSE @]]
  /\ UNCHANGED <<ctrl, ext, ChainFrame>>

\* A step before the model invocation throws (input guardrail, preparation).
PreFail(o) ==
  /\ ops[o].pc = "pre"
  /\ ops' = [ops EXCEPT ![o] = [@ EXCEPT !.pc = "caught", !.err = PreError]]
  /\ UNCHANGED <<ctrl, ext, ChainFrame>>

\* String(bailedResult.response || "")
BailResponse(r) == r

\* createStepHandler: the model collaborator reports a finished step. A tool
\* result tagged bailed: true records the bail and aborts the chain.
StepFinish(o, bailed, r) ==
  /\ ops[o].pc \in {"model", "streaming"}
  /\ ops[o].child = 0
  /\ ops[o].steps < MaxSteps
  /\ IF bailed
     THEN LET rec == [ops EXCEPT ![o] =
                        [@ EXCEPT !.steps = @ + 1,
                                  !.bailedResult =
                                     [set |-> TRUE, agentName |-> "sub",
                                      response |-> BailResponse(r)]]]
              a == Abort(rec, ops[o].ctl, createBailError("sub", BailResponse(r)))
          IN /\ ops' = a.ops
             /\ ctrl' = a.ctrl
     ELSE /\ ops' = [ops EXCEPT ![o] = [@ EXCEPT !.steps = @ + 1]]
          /\ UNCHANGED ctrl
  /\ UNCHANGED <<ext, ChainFrame>>

\* The delegated call has settled: the tool wrapper hands its result (or its
\* error payload) back to the parent's model invocation.
ToolReturn(p) ==
  /\ ops[p].child # 0
  /\ Done(ops[p].child)
  /\ ops' = [ops EXCEPT ![p] = [@ EXCEPT !.child = 0]]
  /\ UNCHANGED <<ctrl, ext, ChainFrame>>

\* The model collaborator (ai.generateText) returns a result.
ModelReturn(o, text, fr) ==
  /\ ops[o].pc = "model"
  /\ ops[o].child = 0
  /\ ops' = [ops EXCEPT ![o] =
               [@ EXCEPT !.pc = "post", !.result = Resolved(text, fr),
                         !.endAborted = Aborted(o)]]
  /\ UNCHANGED <<ctrl, ext, ChainFrame>>

\* generateText after the model returned (no output guardrail is configured on
\* the agents of the chain): onEnd, return.
FinishSuccess(o) ==
  /\ ops[o].pc = "post"
  /\ LET finalText == ops[o].result.text
         fr == ops[o].result.finishReason
     IN ops' = [ops EXCEPT ![o] =
                  [@ EXCEPT !.pc = "done",
                            !.onEnd = Append(@, EndCall(NoErr, finalText, fr)),
                            !.outcome = Resolved(finalText, fr)]]
  /\ UNCHANGED <<ctrl, ext, ChainFrame>>

\* The model collaborator rejects: with the abort reason when the signal it was
\* given is aborted, with an error of its own otherwise.
ModelThrow(o) ==
  /\ ops[o].pc = "model"
  /\ ops[o].child = 0
  /\ ops' = [ops EXCEPT ![o] =
               [@ EXCEPT !.pc = "caught",
                         !.err = IF Aborted(o) THEN Reason(o) ELSE ModelError,
                         !.endAborted = Aborted(o)]]
  /\ UNCHANGED <<ctrl, ext, ChainFrame>>

\* handleError
handleError(op, error, consumedAbort) ==
  IF isBailError(error)
  THEN [op EXCEPT !.pc = "done", !.outcome = Rejected(error),
                  !.verdicts = @ \cup {<<"handleError", "failure">>}]
  ELSE IF ~op.isActive /\ op.cancellationError # NoErr
  THEN [op EXCEPT !.pc = "done", !.outcome = Rejected(op.cancellationError),
                  !.verdicts = @ \cup {<<"handleError", "failure">>}]
  ELSE [op EXCEPT !.pc = "done", !.outcome = Rejected(error),
                  !.onEnd = Append(@, EndCall(createVoltAgentError(error), "", "")),
                  !.onError = @ + 1,
                  !.verdicts = IF consumedAbort
                               THEN @ \cup {<<"handleError", "failure">>} ELSE @]

\* The catch clause of generateText: a bail whose result is recorded on this
\* operation returns it as a success; everything else goes to handleError.
catchGenerateText(op, consumedAbort) ==
  IF isBailError(op.err) /\ op.bailedResult.set
  THEN LET finalText == op.bailedResult.response IN
       [op EXCEPT !.pc = "done",
                  !.onEnd = Append(@, EndCall(NoErr, finalText, "bail")),
                  !.outcome = Resolved(finalText, "bail"),
                  !.verdicts = @ \cup {<<"catch", "bail">>}]
  ELSE handleError(op, op.err, consumedAbort)

\* The catch clause of generateText, and of streamText (errors before the stream).
CatchFinish(o) ==
  /\ ops[o].pc = "caught"
  /\ ops' = [ops EXCEPT ![o] =
               IF @.kind = "generateText"
               THEN catchGenerateText(@, @.endAborted)
               ELSE handleError(@, @.err, @.endAborted)]
  /\ UNCHANGED <<ctrl, ext, ChainFrame>>

\* streamText's onError callback, called by the model collaborator.
streamOnError(op, error, consumedAbort) ==
  IF isBailError(error)
  THEN [op EXCEPT !.errCalled = TRUE, !.err = error, !.endAborted = consumedAbort,
                  !.verdicts = @ \cup {<<"onError", "bail">>}]
  ELSE [op EXCEPT !.errCalled = TRUE, !.err = error, !.endAborted = consumedAbort,
                  !.onError = @ + 1,
                  !.verdicts = IF consumedAbort
                               THEN @ \cup {<<"onError", "failure">>} ELSE @]

StreamError(o) ==
  /\ ops[o].pc = "streaming"
  /\ ops[o].child = 0
  /\ ~ops[o].errCalled
  /\ ops' = [ops EXCEPT ![o] =
               streamOnError(@, IF Aborted(o) THEN Reason(o) ELSE ModelError, Aborted(o))]
  /\ UNCHANGED <<ctrl, ext, ChainFrame>>

\* The text promise of the stream result (no guardrail pipeline):
\* bailedResult?.response || aiSdkText
sanitizedText(op, aiSdkText) ==
  IF op.bailedResult.set /\ op.bailedResult.response # ""
  THEN op.bailedResult.response
  ELSE aiSdkText

\* streamText's onFinish callback.
streamOnFinish(op, text, fr) ==
  LET finalText ==
        IF op.bailedResult.set
        THEN op.bailedResult.response
        ELSE text
  IN [op EXCEPT !.pc = "done",
                !.result = Resolved(text, fr),
                !.onEnd = Append(@, EndCall(NoErr, finalText, fr)),
                !.textPromise = Resolved(sanitizedText(op, text), fr),
                !.verdicts = IF op.bailedResult.set
                             THEN @ \cup {<<"onFinish", "bail">>} ELSE @]

StreamFinish(o, text, fr) ==
  /\ ops[o].pc = "streaming"
  /\ ops[o].child = 0
  /\ ops' = [ops EXCEPT ![o] = streamOnFinish(@, text, fr)]
  /\ UNCHANGED <<ctrl, ext, ChainFrame>>

\* The stream ends after a reported error without a finish event: the text
\* promise of the result rejects.
StreamEnd(o) ==
  /\ ops[o].pc = "streaming"
  /\ ops[o].errCalled
  /\ ~isBailError(ops[o].err)
  /\ ops' = [ops EXCEPT ![o] = [@ EXCEPT !.pc = "done", !.textPromise = Rejected(ops[o].err)]]
  /\ UNCHANGED <<ctrl, ext, ChainFrame>>

\* ------------------------------------------------------------------------
\* The tool execution wrapper (createToolExecutionFactory)
\* ------------------------------------------------------------------------
\* A thrown value: an Error, or a value that is no Error (a string).
TErr(e) == [isError |-> TRUE, err |-> e, s |-> ""]
TStr(s) == [isError |-> FALSE, err |-> PlainError, s |-> s]
NoThrow == TStr("")

DeniedError == MkError("ToolDeniedError", Str("stack"), Undefined, NoProps)
CallIdError == MkError("Error", Str("stack"), Undefined, [k \in {"toolCallId"} |-> Str("x")])
NoExecuteError ==
  [name |-> "Error", message |-> "Tool demo-tool does not have \"execute\" method",
   stack |-> Str("stack"), cause |-> Undefined, props |-> NoProps]

\* What a hook or the tool throws.
ToolErrors ==
  {PlainError, DeniedError, CallIdError} \cup {ErrorWithConfig(Ref(a)) : a \in Addrs}
ThrownVals == {TErr(e) : e \in ToolErrors} \cup {TStr("oops")}
HookThrows == {TErr(PlainError), TErr(DeniedError)}

\* What the tool returns, and the output schemas a tool declares: none, one
\* that accepts the value as it is, one that accepts and transforms it, one
\* that rejects it.
ResultVals == {Str("ok")} \cup {Ref(a) : a \in Addrs}
Schemas == {"none", "accepts", "transforms", "rejects"}
ParsedData == Str("parsed")

\* e instanceof Error ? e : new Error(String(e))
asError(th) ==
  IF th.isError THEN th.err
  ELSE [name |-> "Error", message |-> th.s, stack |-> Str("stack"),
        cause |-> Undefined, props |-> NoProps]

\* The thrown value as an abort reason / hook error of the call chain.
AsErr(th) == IF th.isError THEN Err(th.err.name, th.err.message) ELSE Err("string", th.s)

\* validateToolOutput: the validated value, or the Error it throws, which
\* carries the issues (here: their text) and the rejected value as own
\* properties.
ValidationError(result) ==
  [name |-> "Error", message |-> "Output validation failed", stack |-> Str("stack"),
   cause |-> Undefined,
   props |-> [k \in {"validationErrors", "actualOutput"} |->
                IF k = "actualOutput" THEN result ELSE Str("issues")]]
validateToolOutput(schema, result) ==
  CASE schema = "none" -> [ok |-> TRUE, data |-> result, error |-> PlainError]
    [] schema = "accepts" -> [ok |-> TRUE, data |-> result, error |-> PlainError]
    [] schema = "transforms" -> [ok |-> TRUE, data |-> ParsedData, error |-> PlainError]
    [] OTHER -> [ok |-> FALSE, data |-> Undefined, error |-> ValidationError(result)]

\* A call of the onToolEnd hook: the output or the error it was given.
ToolEnd(output, error) == [output |-> output, error |-> error]

TwIdle ==
  [pc |-> "idle", hasExecute |-> TRUE, schema |-> "none", callId |-> "",
   thrown |-> NoThrow, thrownBy |-> "", executed |-> 0, result |-> Undefined,
   validated |-> Undefined, res |-> NoPayload, toolEnd |-> <<>>,
   outcome |-> "pending", returned |-> "", rejectedWith |-> NoErr]

\* The synchronous head of the catch clause: the payload is built; when
\* building it throws, the wrapper's promise rejects.
enterCatch(t, th, by) ==
  LET res == buildToolErrorResult(heap, asError(th), t.callId, "demo-tool") IN
  IF res.threw
  THEN [t EXCEPT !.pc = "done", !.thrown = th, !.thrownBy = by, !.res = res,
                 !.outcome = "rejected", !.rejectedWith = Err("RangeError", "stack")]
  ELSE [t EXCEPT !.pc = "catchEnd", !.thrown = th, !.thrownBy = by, !.res = res]

ToolFrame == <<heap, eu, ext, Rest>>

\* The model collaborator calls the wrapped tool during the model invocation
\* of operation 1.
ToolCall(hasExecute, schema, c) ==
  /\ tw.pc = "idle"
  /\ ops[1].pc = "model"
  /\ tw' = [tw EXCEPT !.pc = "start", !.hasExecute = hasExecute, !.schema = schema,
                       !.callId = c]
  /\ UNCHANGED <<ops, ctrl, ToolFrame>>

\* The onToolStart hook returns, or throws.
ToolStartReturns ==
  /\ tw.pc = "start"
  /\ tw' = [tw EXCEPT !.pc = "execute"]
  /\ UNCHANGED <<ops, ctrl, ToolFrame>>

ToolStartThrows(th) ==
  /\ tw.pc = "start"
  /\ tw' = enterCatch(tw, th, "onToolStart")
  /\ UNCHANGED <<ops, ctrl, ToolFrame>>

\* A tool without execute: the wrapper throws.
ToolHasNoExecute ==
  /\ tw.pc = "execute"
  /\ ~tw.hasExecute
  /\ tw' = enterCatch(tw, TErr(NoExecuteError), "wrapper")
  /\ UNCHANGED <<ops, ctrl, ToolFrame>>

\* tool.execute returns a value, which is validated against the output schema.
ToolExecuteReturns(r) ==
  /\ tw.pc = "execute"
  /\ tw.hasExecute
  /\ LET v == validateToolOutput(tw.schema, r)
         ran == [tw EXCEPT !.executed = @ + 1, !.result = r]
     IN tw' = IF v.ok
              THEN [ran EXCEPT !.pc = "end", !.validated = v.data]
              ELSE enterCatch(ran, TErr(v.error), "validateToolOutput")
  /\ UNCHANGED <<ops, ctrl, ToolFrame>>

ToolExecuteThrows(th) ==
  /\ tw.pc = "execute"
  /\ tw.hasExecute
  /\ tw' = enterCatch([tw EXCEPT !.executed = @ + 1], th, "execute")
  /\ UNCHANGED <<ops, ctrl, ToolFrame>>

\* The onToolEnd hook of the success path returns: the wrapper returns the
\* value execute returned.
ToolEndReturns ==
  /\ tw.pc = "end"
  /\ tw' = [tw EXCEPT !.pc = "done", !.outcome = "resolved", !.returned = "result",
                       !.toolEnd = Append(@, ToolEnd(tw.validated, NoErr))]
  /\ UNCHANGED <<ops, ctrl, ToolFrame>>

\* The onToolEnd hook of the success path throws, inside the try block.
ToolEndThrows(th) ==
  /\ tw.pc = "end"
  /\ tw' = enterCatch([tw EXCEPT !.toolEnd = Append(@, ToolEnd(tw.validated, NoErr))],
                      th, "onToolEnd")
  /\ UNCHANGED <<ops, ctrl, ToolFrame>>

\* The onToolEnd hook of the catch clause returns: a tool-denied error aborts
\* the chain, and the wrapper returns the payload.
ToolCatchEndReturns ==
  /\ tw.pc = "catchEnd"
  /\ tw' = [tw EXCEPT !.pc = "done", !.outcome = "resolved", !.returned = "payload",
                       !.toolEnd = Append(@, ToolEnd(Undefined,
                                                     createVoltAgentError(AsErr(tw.thrown))))]
  /\ IF isToolDeniedError(AsErr(tw.thrown))
     THEN LET a == Abort(ops, ops[1].ctl, AsErr(tw.thrown)) IN
          /\ ops' = a.ops
          /\ ctrl' = a.ctrl
     ELSE UNCHANGED <<ops, ctrl>>
  /\ UNCHANGED ToolFrame

\* The onToolEnd hook of the catch clause throws: the wrapper's promise rejects.
ToolCatchEndThrows(th) ==
  /\ tw.pc = "catchEnd"
  /\ tw' = [tw EXCEPT !.pc = "done", !.outcome = "rejected", !.rejectedWith = AsErr(th),
                       !.toolEnd = Append(@, ToolEnd(Undefined,
                                                     createVoltAgentError(AsErr(tw.thrown))))]
  /\ UNCHANGED <<ops, ctrl, ToolFrame>>

\* ------------------------------------------------------------------------
\* Completion of a call (generateText, streamText): flush, trace, hooks
\* ------------------------------------------------------------------------
FlushError == Err("Error", "storage down")
CancelError == createAbortError("timeout")
BailReason == createBailError("sub", "final answer")

\* MemoryPersistQueue.flush: an attempt, which fails when the storage
\* collaborator does; the failure is rethrown to the caller of flush.
Flush(site, ok) == [site |-> site, ok |-> ok]

ClIdle ==
  [kind |-> "generateText", pc |-> "idle", aborted |-> "no", bailedResult |-> FALSE,
   isActive |-> TRUE, cancellationError |-> NoErr, modelThrew |-> NoErr, steps |-> 0,
   flushes |-> <<>>, onEnd |-> <<>>, onError |-> 0, trace |-> "open",
   path |-> "", outcome |-> Pending]

\* flushPendingMessagesOnError(oc).catch(() => {}): the attempt, its failure
\* swallowed.
flushPendingMessagesOnError(c, ok) ==
  [c EXCEPT !.flushes = Append(@, Flush("error path", ok))]

\* What handleError throws in its general branch.
wrappedError(error) == createVoltAgentError(error)
rethrown(error) == error

\* handleError for this call.
callHandleError(c, error) ==
  IF isBailError(error)
  THEN [c EXCEPT !.pc = "done", !.outcome = Rejected(error)]
  ELSE IF ~c.isActive /\ c.cancellationError # NoErr
  THEN [c EXCEPT !.pc = "done", !.outcome = Rejected(c.cancellationError)]
  ELSE [c EXCEPT !.pc = "done", !.trace = "error",
                 !.onEnd = Append(@, createVoltAgentError(error)),
                 !.onError = @ + 1,
                 !.outcome = Rejected(rethrown(error))]

\* The catch clause of generateText.
callCatch(c, error, ok) ==
  IF isBailError(error) /\ c.bailedResult
  THEN [c EXCEPT !.pc = "done", !.path = "bail", !.onEnd = Append(@, NoErr),
                 !.outcome = Resolved("final answer", "bail")]
  ELSE callHandleError(flushPendingMessagesOnError(c, ok), error)

ClFrame == <<heap, eu, tw, ops, ctrl, ext, cx, rs, hk, cs, st, gd, pt, so>>

\* The call starts: its operation context exists, onStart is running.
CallBegin(kind) ==
  /\ cl.pc = "idle"
  /\ cl' = [cl EXCEPT !.kind = kind, !.pc = "start"]
  /\ UNCHANGED ClFrame

\* The call reaches the model invocation: onStart has returned and the abort
\* listener is registered.
CallInvokesModel ==
  /\ cl.pc = "start"
  /\ cl' = [cl EXCEPT !.pc = "model"]
  /\ UNCHANGED ClFrame

\* A step of the model invocation finishes.
CallStep ==
  /\ cl.pc = "model"
  /\ cl.steps < MaxEvents
  /\ cl' = [cl EXCEPT !.steps = @ + 1]
  /\ UNCHANGED ClFrame

\* The chain is aborted before the listener is registered: no listener runs.
CallAbortEarly ==
  /\ cl.pc = "start"
  /\ cl.aborted = "no"
  /\ cl' = [cl EXCEPT !.aborted = "cancel"]
  /\ UNCHANGED ClFrame

\* The chain is aborted during the model invocation: by a cancellation, by a
\* bail this operation recorded, or by a bail recorded elsewhere on the chain.
CallAbort(how) ==
  /\ cl.pc = "model"
  /\ cl.aborted = "no"
  /\ cl' = CASE how = "cancel" ->
                  [cl EXCEPT !.aborted = how, !.isActive = FALSE,
                             !.cancellationError = CancelError,
                             !.onEnd = Append(@, CancelError)]
             [] how = "bailRecorded" ->
                  [cl EXCEPT !.aborted = "bail", !.isActive = FALSE, !.bailedResult = TRUE]
             [] OTHER -> [cl EXCEPT !.aborted = "bail", !.isActive = FALSE]
  /\ UNCHANGED ClFrame

AbortReason == IF cl.aborted = "cancel" THEN CancelError ELSE BailReason

\* generateText: the model invocation returns; steps are recorded, the
\* buffer is flushed, onEnd is called and the trace closed. A failing flush
\* throws inside the try block.
GenReturns(ok, ok2) ==
  /\ cl.pc = "model"
  /\ cl.kind = "generateText"
  /\ LET flushed == [cl EXCEPT !.path = "success",
                               !.flushes = Append(@, Flush("success path", ok))] IN
     cl' = IF ok
           THEN [flushed EXCEPT !.pc = "done", !.onEnd = Append(@, NoErr),
                                !.trace = "completed",
                                !.outcome = Resolved("final answer", "stop")]
           ELSE callCatch(flushed, FlushError, ok2)
  /\ UNCHANGED ClFrame

\* generateText: the model invocation throws: its own error, or the abort
\* reason once the chain is aborted.
GenThrows(fromAbort, ok) ==
  /\ cl.pc = "model"
  /\ cl.kind = "generateText"
  /\ fromAbort => cl.aborted # "no"
  /\ LET error == IF fromAbort THEN AbortReason ELSE ModelError IN
     cl' = callCatch([cl EXCEPT !.modelThrew = error,
                                !.path = IF isBailError(error) THEN "bail"
                                         ELSE IF fromAbort THEN "cancel" ELSE "error"],
                     error, ok)
  /\ UNCHANGED ClFrame

\* streamText: creating the stream throws before any part is delivered.
StreamThrows(ok) ==
  /\ cl.pc = "model"
  /\ cl.kind = "streamText"
  /\ cl.aborted = "no"
  /\ cl' = callHandleError(
             flushPendingMessagesOnError([cl EXCEPT !.modelThrew = ModelError,
                                                    !.path = "error"], ok),
             ModelError)
  /\ UNCHANGED ClFrame

\* streamText's onError callback: the stream reports an error, which stays
\* part of the stream.
StreamReportsError(fromAbort) ==
  /\ cl.pc = "model"
  /\ cl.kind = "streamText"
  /\ fromAbort => cl.aborted # "no"
  /\ LET error == IF fromAbort THEN AbortReason ELSE ModelError IN
     cl' = IF isBailError(error)
           THEN [cl EXCEPT !.pc = "reported", !.path = "bail"]
           ELSE [cl EXCEPT !.pc = "done", !.path = IF fromAbort THEN "cancel" ELSE "error",
                           !.onError = @ + 1, !.trace = "error",
                           !.outcome = Rejected(error)]
  /\ UNCHANGED ClFrame

\* streamText's onFinish callback: the buffer is flushed first; a failing
\* flush throws out of the callback.
StreamFinishes(ok) ==
  /\ cl.pc \in {"model", "reported"}
  /\ cl.kind = "streamText"
  /\ LET flushed == [cl EXCEPT !.path = IF cl.pc = "reported" \/ cl.bailedResult
                                        THEN "bail" ELSE "success",
                               !.flushes = Append(@, Flush("onFinish", ok))] IN
     cl' = IF ok
           THEN [flushed EXCEPT !.pc = "done", !.onEnd = Append(@, NoErr),
                                !.trace = "completed",
                                !.outcome = Resolved("final answer", "stop")]
           ELSE [flushed EXCEPT !.pc = "done", !.outcome = Rejected(FlushError)]
  /\ UNCHANGED ClFrame

\* ------------------------------------------------------------------------
\* conversationSteps of a delegation chain
\* ------------------------------------------------------------------------
\* Array instances are numbered as the operation that allocated them; an
\* operation holds a reference to one of them.
ChainOps == 1..MaxCalls
NoArray == 0

RECURSIVE StepsUpTo(_)
StepsUpTo(o) == IF o = 0 THEN 0 ELSE cs.steps[o] + StepsUpTo(o - 1)
ChainSteps == StepsUpTo(MaxCalls)

ownSteps(o, parent) == o
\* conversationSteps: options?.parentOperationContext?.conversationSteps || []
conversationStepsOf(o, parent) == IF parent # 0 THEN cs.ref[parent] ELSE o

CsIdle ==
  [arrays |-> [a \in ChainOps |-> <<>>],
   ref |-> [o \in ChainOps |-> NoArray],
   parent |-> [o \in ChainOps |-> 0],
   steps |-> [o \in ChainOps |-> 0],
   count |-> [o \in ChainOps |-> 0]]

CsFrame == <<heap, eu, tw, ops, ctrl, ext, cx, rs, hk, cl, st, gd, pt, so>>

\* createOperationContext for operation o, delegated by parent or top-level.
CsCreate(o, parent) ==
  /\ cs.ref[o] = NoArray
  /\ \A q \in 1..(o - 1) : cs.ref[q] # NoArray
  /\ parent # 0 => (parent < o /\ cs.ref[parent] # NoArray)
  /\ cs' = [cs EXCEPT !.ref[o] = conversationStepsOf(o, parent), !.parent[o] = parent]
  /\ UNCHANGED CsFrame

\* createStepHandler: a step of operation o is collected in its systemContext.
CsCollect(o) ==
  /\ cs.ref[o] # NoArray
  /\ ChainSteps < MaxChainSteps
  /\ cs' = [cs EXCEPT !.steps[o] = @ + 1]
  /\ UNCHANGED CsFrame

\* recordStepResults of operation o: the entries of its new steps are pushed.
CsRecord(o) ==
  /\ cs.ref[o] # NoArray
  /\ cs.count[o] < cs.steps[o]
  /\ cs' = [cs EXCEPT !.count[o] = cs.steps[o],
                      !.arrays[cs.ref[o]] =
                         @ \o [i \in 1..(cs.steps[o] - cs.count[o]) |->
                                 <<o, "step", cs.count[o] + i>>]]
  /\ UNCHANGED CsFrame

\* addStepToHistory of operation o (generateObject, streamObject).
CsAddStep(o) ==
  /\ cs.ref[o] # NoArray
  /\ ChainSteps < MaxChainSteps
  /\ cs' = [cs EXCEPT !.steps[o] = @ + 1, !.count[o] = @ + 1,
                      !.arrays[cs.ref[o]] = Append(@, <<o, "object", cs.steps[o] + 1>>)]
  /\ UNCHANGED CsFrame

\* ------------------------------------------------------------------------
\* Output guardrails
\* ------------------------------------------------------------------------
\* A text is a sequence of fragments; the empty text is the empty sequence.
\* A guardrail passes the text on, replaces it, clears it or rejects it.
GuardrailKinds == {"pass", "redact", "mark", "clear", "reject"}
Guardrail(id, kind) == [id |-> id, kind |-> kind]
applyGuardrail(kind, text) ==
  CASE kind = "redact" -> <<"[redacted]">>
    [] kind = "mark" -> Append(text, "!")
    [] kind = "clear" -> <<>>
    [] OTHER -> text

\* runOutputGuardrails: the guardrails run one after the other, each on the
\* output of the previous one; the first rejection ends the run.
RECURSIVE runOutputGuardrails(_, _, _)
runOutputGuardrails(guardrails, text, calls) ==
  IF guardrails = <<>> THEN [ok |-> TRUE, text |-> text, calls |-> calls]
  ELSE LET g == Head(guardrails)
           seen == Append(calls, [id |-> g.id, input |-> text]) IN
       IF g.kind = "reject" THEN [ok |-> FALSE, text |-> text, calls |-> seen]
       ELSE runOutputGuardrails(Tail(guardrails), applyGuardrail(g.kind, text), seen)

callLevelFirst(agentGuardrails, callGuardrails) == callGuardrails \o agentGuardrails
\* resolveGuardrailSets(options).output
resolveGuardrailSets(agentGuardrails, callGuardrails) == agentGuardrails \o callGuardrails

\* ------------------------------------------------------------------------
\* generateText: output guardrails on the normal and on the bail path
\* ------------------------------------------------------------------------
AgentGuardrailSets == {<<>>} \cup {<<Guardrail("agent", k)>> : k \in GuardrailKinds \ {"clear"}}
CallGuardrailSets == {<<>>} \cup {<<Guardrail("call", k)>> : k \in GuardrailKinds \ {"clear"}}
GuardedOutputs == {<<>>, <<"a">>}

GuardrailCall(id, input) == [id |-> id, input |-> input]

GdIdle ==
  [pc |-> "idle", agent |-> <<>>, call |-> <<>>, path |-> "none", output |-> <<>>,
   todo |-> <<>>, current |-> <<>>, calls |-> <<>>, outcome |-> "none", text |-> <<>>,
   onEnd |-> <<>>]

GdFrame == <<heap, eu, tw, ops, ctrl, ext, cx, rs, hk, cl, cs, st, pt, so>>

\* generateText is called on an agent with its own output guardrails and
\* with options.outputGuardrails; the model is invoked.
GdBegin(agentGuardrails, callGuardrails) ==
  /\ gd.pc = "idle"
  /\ gd' = [gd EXCEPT !.pc = "model", !.agent = agentGuardrails, !.call = callGuardrails]
  /\ UNCHANGED GdFrame

\* The model returns (normal path) or the invocation rejects after a bail
\* was recorded (bail path): executeOutputGuardrails is called with the
\* output of that path and guardrailSet.output.
GdOutput(path, output) ==
  /\ gd.pc = "model"
  /\ gd' = [gd EXCEPT !.pc = "guardrails", !.path = path, !.output = output,
                      !.current = output,
                      !.todo = resolveGuardrailSets(gd.agent, gd.call)]
  /\ UNCHANGED GdFrame

\* The next guardrail runs on the current value.
GdRunGuardrail ==
  /\ gd.pc = "guardrails"
  /\ gd.todo # <<>>
  /\ LET g == Head(gd.todo)
         seen == Append(gd.calls, GuardrailCall(g.id, gd.current)) IN
     IF g.kind = "reject"
     THEN gd' = [gd EXCEPT !.pc = "done", !.calls = seen, !.outcome = "rejected"]
     ELSE gd' = [gd EXCEPT !.calls = seen, !.todo = Tail(@),
                           !.current = applyGuardrail(g.kind, @)]
  /\ UNCHANGED GdFrame

\* All guardrails passed: onEnd gets the final text and the call returns it.
GdReturns ==
  /\ gd.pc = "guardrails"
  /\ gd.todo = <<>>
  /\ gd' = [gd EXCEPT !.pc = "done", !.outcome = "resolved", !.text = gd.current,
                      !.onEnd = Append(@, gd.current)]
  /\ UNCHANGED GdFrame

\* ------------------------------------------------------------------------
\* streamText: the streams and the text promise of the result
\* ------------------------------------------------------------------------
RawParts == {"a", "tool-call"}
IsText(part) == part = "a"
TextOf(parts) == SelectSeq(parts, IsText)
BailResponses == {<<>>, <<"final answer">>}
StreamGuardrailSets ==
  {<<>>, <<Guardrail(1, "pass")>>, <<Guardrail(1, "clear")>>}

Part(source, part) == [source |-> source, part |-> part]
FromModel(full) == SelectSeq(full, LAMBDA x : x.source = "model")
PartsOf(full) == [i \in 1..Len(full) |-> full[i].part]

StIdle ==
  [pc |-> "idle", guardrails |-> <<>>, hasSubAgents |-> FALSE, raw |-> <<>>,
   rawDone |-> FALSE, aborted |-> FALSE, bailed |-> FALSE, response |-> <<>>,
   full |-> <<>>, fullDone |-> FALSE, textStream |-> <<>>, textDone |-> FALSE,
   text |-> [status |-> "pending", text |-> <<>>], onEnd |-> <<>>]

firstPart(raw, read) == raw[1]
\* iterator.next() of the raw stream: the part after those already read.
nextPart(raw, read) == raw[read + 1]

\* sanitizedTextPromise with the guardrail pipeline: the sanitized text when
\* it is a non-empty string, else bailedResult?.response || aiSdkText.
bailedOrText(s, aiSdkText) == IF s.bailed /\ s.response # <<>> THEN s.response ELSE aiSdkText
sanitizedTextPromise(s) ==
  LET aiSdkText == TextOf(s.raw)
      sanitized == runOutputGuardrails(s.guardrails, aiSdkText, <<>>).text IN
  IF s.guardrails # <<>> /\ sanitized # <<>> THEN sanitized
  ELSE bailedOrText(s, aiSdkText)

\* The final text onFinish computes and passes to onEnd.
onFinishText(s) ==
  IF s.bailed
  THEN IF s.guardrails # <<>>
       THEN runOutputGuardrails(s.guardrails, s.response, <<>>).text
       ELSE s.response
  ELSE IF s.guardrails # <<>> THEN sanitizedTextPromise(s)
  ELSE TextOf(s.raw)

StFrame == <<heap, eu, tw, ops, ctrl, ext, cx, rs, hk, cl, cs, gd, pt, so>>

StBegin(guardrails, hasSubAgents) ==
  /\ st.pc = "idle"
  /\ st' = [st EXCEPT !.pc = "streaming", !.guardrails = guardrails,
                      !.hasSubAgents = hasSubAgents]
  /\ UNCHANGED StFrame

\* The model produces the next part of its raw stream, or completes it.
StModelPart(part) ==
  /\ st.pc = "streaming"
  /\ ~st.rawDone
  /\ Len(st.raw) < MaxParts
  /\ st' = [st EXCEPT !.raw = Append(@, part)]
  /\ UNCHANGED StFrame

StModelEnd ==
  /\ st.pc = "streaming"
  /\ ~st.rawDone
  /\ st' = [st EXCEPT !.rawDone = TRUE]
  /\ UNCHANGED StFrame

\* The chain is aborted while the stream runs: by a bail the step handler
\* recorded with the delegated agent's response (only an agent with
\* sub-agents has the delegate tool), or by a cancellation. The model's
\* stream ends.
StAbort(bail, response) ==
  /\ st.pc = "streaming"
  /\ bail => st.hasSubAgents
  /\ ~st.aborted
  /\ ~st.rawDone
  /\ st' = [st EXCEPT !.aborted = TRUE, !.rawDone = TRUE, !.bailed = bail,
                      !.response = IF bail THEN response ELSE <<>>]
  /\ UNCHANGED StFrame

\* The consumer of fullStream asks for the next part (wrapWithAbortHandling
\* around result.fullStream, directly or behind the merged stream).
StReadFull ==
  /\ st.pc # "idle"
  /\ ~st.fullDone
  /\ LET read == Len(FromModel(st.full)) IN
     IF st.aborted THEN st' = [st EXCEPT !.fullDone = TRUE]
     ELSE IF read < Len(st.raw)
     THEN st' = [st EXCEPT !.full = Append(@, Part("model", nextPart(st.raw, read)))]
     ELSE /\ st.rawDone
          /\ st' = [st EXCEPT !.fullDone = TRUE]
  /\ UNCHANGED StFrame

\* A delegated operation writes a part to the merged stream through the
\* writer published in systemContext.
StForward ==
  /\ st.pc = "streaming"
  /\ st.hasSubAgents
  /\ ~st.fullDone
  /\ ~st.aborted
  /\ Len(st.full) < MaxParts
  /\ st' = [st EXCEPT !.full = Append(@, Part("sub-agent", "a"))]
  /\ UNCHANGED StFrame

\* The consumer of textStream (result.textStream) asks for the next text.
StReadText ==
  /\ st.pc # "idle"
  /\ ~st.textDone
  /\ LET read == Len(st.textStream) IN
     IF read < Len(TextOf(st.raw))
     THEN st' = [st EXCEPT !.textStream = Append(@, nextPart(TextOf(st.raw), read))]
     ELSE /\ st.rawDone
          /\ st' = [st EXCEPT !.textDone = TRUE]
  /\ UNCHANGED StFrame

\* The stream has ended: onFinish runs and the text promise settles. After a
\* cancellation no finish is reported and the text promise rejects.
StFinish ==
  /\ st.pc = "streaming"
  /\ st.rawDone
  /\ st' = IF st.aborted /\ ~st.bailed
           THEN [st EXCEPT !.pc = "done", !.text = [status |-> "rejected", text |-> <<>>]]
           ELSE [st EXCEPT !.pc = "done", !.onEnd = Append(@, onFinishText(st)),
                           !.text = [status |-> "resolved", text |-> sanitizedTextPromise(st)]]
  /\ UNCHANGED StFrame

\* ------------------------------------------------------------------------
\* prepareTools: static and runtime tools
\* ------------------------------------------------------------------------
\* A tool is its name and where it comes from; a prepared tool set maps each
\* name to the origin of the tool prepared under it, or to Absent.
Tool(name, origin) == [name |-> name, origin |-> origin]
StaticNames == {"shared-tool", "static-only", "delegate_task"}
AdHocNames == {"shared-tool", "runtime-only"}
PreparedNames == StaticNames \cup AdHocNames \cup {"update_working_memory"}
NoTools == [n \in PreparedNames |-> "-"]

\* The tool lists an agent or a call can carry: each name at most once.
RECURSIVE ToolLists(_, _)
ToolLists(names, origin) ==
  IF names = {} THEN {<<>>}
  ELSE LET n == CHOOSE x \in names : TRUE
           rest == ToolLists(names \ {n}, origin) IN
       rest \cup {<<Tool(n, origin)>> \o l : l \in rest}

\* new ToolManager(tools).prepareToolsForExecution(factory): one prepared
\* tool per name; a later tool of the same name replaces an earlier one.
RECURSIVE prepareToolsForExecution(_)
prepareToolsForExecution(tools) ==
  IF tools = <<>> THEN NoTools
  ELSE LET t == tools[Len(tools)] IN
       [prepareToolsForExecution(SubSeq(tools, 1, Len(tools) - 1)) EXCEPT ![t.name] = t.origin]

staticOverrides(preparedStaticTools, preparedDynamicTools) ==
  [n \in PreparedNames |->
     IF preparedStaticTools[n] # "-" THEN preparedStaticTools[n]
     ELSE preparedDynamicTools[n]]
\* { ...preparedStaticTools, ...preparedDynamicTools }
mergePrepared(preparedStaticTools, preparedDynamicTools) ==
  [n \in PreparedNames |->
     IF preparedDynamicTools[n] # "-" THEN preparedDynamicTools[n]
     ELSE preparedStaticTools[n]]

PtIdle ==
  [pc |-> "idle", static |-> <<>>, adHoc |-> <<>>, hasSubAgents |-> FALSE,
   workingMemory |-> FALSE, runtimeTools |-> <<>>, prepared |-> NoTools]

PtFrame == <<heap, eu, tw, ops, ctrl, ext, cx, rs, hk, cl, cs, st, gd, so>>

\* prepareTools(adHocTools, ...) on an agent with its static tools:
\* runtimeTools starts as a copy of the call's tools.
PtBegin(static, adHoc, hasSubAgents, workingMemory) ==
  /\ pt.pc = "idle"
  /\ pt' = [pt EXCEPT !.pc = "delegate", !.static = static, !.adHoc = adHoc,
                      !.hasSubAgents = hasSubAgents, !.workingMemory = workingMemory,
                      !.runtimeTools = adHoc]
  /\ UNCHANGED PtFrame

\* The delegate tool is added when the agent has sub-agents.
PtDelegate ==
  /\ pt.pc = "delegate"
  /\ pt' = [pt EXCEPT !.pc = "memory",
                      !.runtimeTools = IF pt.hasSubAgents
                                       THEN Append(@, Tool("delegate_task", "delegate"))
                                       ELSE @]
  /\ UNCHANGED PtFrame

\* The working-memory tools are added when working memory is configured.
PtWorkingMemory ==
  /\ pt.pc = "memory"
  /\ pt' = [pt EXCEPT !.pc = "merge",
                      !.runtimeTools = IF pt.workingMemory
                                       THEN Append(@, Tool("update_working_memory", "memory"))
                                       ELSE @]
  /\ UNCHANGED PtFrame

\* Both tool sets are prepared and merged.
PtReturn ==
  /\ pt.pc = "merge"
  /\ pt' = [pt EXCEPT !.pc = "done",
                      !.prepared = mergePrepared(prepareToolsForExecution(pt.static),
                                                 prepareToolsForExecution(pt.runtimeTools))]
  /\ UNCHANGED PtFrame

\* ------------------------------------------------------------------------
\* streamObject: the object promise of the result
\* ------------------------------------------------------------------------
\* A promise settles once: resolve and reject of a settled promise do nothing.
PendingObject == [status |-> "pending", value |-> <<>>]
lastSettlement(promise, status, value) == [status |-> status, value |-> value]
settle(promise, status, value) ==
  IF promise.status = "pending" THEN [status |-> status, value |-> value] ELSE promise

StreamObjects == {<<"obj">>, <<"other">>}

SoIdle ==
  [pc |-> "idle", guardrails |-> <<>>, streamed |-> <<>>, final |-> <<>>,
   object |-> PendingObject,
   ended |-> "no", handlerThrew |-> FALSE, onEnd |-> <<>>]

SoFrame == <<heap, eu, tw, ops, ctrl, ext, cx, rs, hk, cl, cs, st, gd, pt>>

\* streamObject is called; the model's stream starts. With output guardrails
\* the object promise of the result is a promise of the agent's own, else it
\* is result.object.
SoBegin(agentGuardrails, callGuardrails) ==
  /\ so.pc = "idle"
  /\ so' = [so EXCEPT !.pc = "streaming",
                      !.guardrails = resolveGuardrailSets(agentGuardrails, callGuardrails)]
  /\ UNCHANGED SoFrame

\* The stream reports an error: the onError callback rejects the promise.
SoStreamError ==
  /\ so.pc = "streaming"
  /\ so' = [so EXCEPT !.pc = "done", !.ended = "error",
                      !.object = settle(@, "rejected", <<"stream error">>)]
  /\ UNCHANGED SoFrame

\* The stream finishes with its final object: onFinish starts. Without
\* guardrails result.object resolves with the final object.
SoStreamFinish(object) ==
  /\ so.pc = "streaming"
  /\ so' = [so EXCEPT !.pc = "onFinish", !.ended = "finish", !.streamed = object,
                      !.final = object,
                      !.object = IF so.guardrails = <<>>
                                 THEN settle(@, "resolved", object) ELSE @]
  /\ UNCHANGED SoFrame

\* onFinish up to the end of the guardrails: when they pass the promise is
\* resolved with their output; a rejection is caught, rejects the promise
\* and is rethrown.
SoGuardrails ==
  /\ so.pc = "onFinish"
  /\ LET run == runOutputGuardrails(so.guardrails, so.streamed, <<>>) IN
     IF so.guardrails = <<>> THEN so' = [so EXCEPT !.pc = "onEnd"]
     ELSE IF run.ok
     THEN so' = [so EXCEPT !.pc = "onEnd", !.final = run.text,
                           !.object = settle(@, "resolved", run.text)]
     ELSE so' = [so EXCEPT !.pc = "done", !.handlerThrew = TRUE,
                           !.object = settle(@, "rejected", <<"guardrail">>)]
  /\ UNCHANGED SoFrame

\* The rest of onFinish (saveMessage, onEnd, the caller's onFinish, the
\* flush) returns, or throws: the catch clause rejects the promise and
\* rethrows.
SoFinishReturns ==
  /\ so.pc = "onEnd"
  /\ so' = [so EXCEPT !.pc = "done", !.onEnd = Append(@, so.final)]
  /\ UNCHANGED SoFrame

SoFinishThrows ==
  /\ so.pc = "onEnd"
  /\ so' = [so EXCEPT !.pc = "done", !.handlerThrew = TRUE,
                      !.object = IF so.guardrails = <<>> THEN @
                                 ELSE settle(@, "rejected", <<"handler">>)]
  /\ UNCHANGED SoFrame

\* ------------------------------------------------------------------------
\* Hook merging (getMergedHooks)
\* ------------------------------------------------------------------------
EventHooks == {"onStart", "onEnd", "onError", "onToolStart", "onToolEnd", "onStepFinish"}
PrepareHooks == {"onPrepareMessages", "onPrepareModelMessages"}
HookNames == EventHooks \cup PrepareHooks

\* A hooks object is the set of hook names it defines; a call may carry no
\* hooks object at all.
NoHooks == {"-"}
Defines(hooks, name) == hooks # NoHooks /\ name \in hooks

\* getMergedHooks(options)[name](...): the hooks invoked, in order.
getMergedHooks(optionsHooks, agentHooks, name) ==
  IF optionsHooks = NoHooks
  THEN IF Defines(agentHooks, name) THEN <<"agent">> ELSE <<>>
  ELSE IF name \in PrepareHooks
  THEN IF Defines(optionsHooks, name) THEN <<"call">>
       ELSE IF Defines(agentHooks, name) THEN <<"agent">> ELSE <<>>
  ELSE (IF Defines(optionsHooks, name) THEN <<"call">> ELSE <<>>)
       \o (IF Defines(agentHooks, name) THEN <<"agent">> ELSE <<>>)

HkIdle == [name |-> "onStart", agentHooks |-> {}, optionsHooks |-> NoHooks, events |-> <<>>]

HkFrame == <<heap, eu, tw, ops, ctrl, ext, cx, rs, cl, cs, st, gd, pt, so>>

\* An occurrence of the event dispatched by the call itself: the call sites
\* pass the call's options to getMergedHooks.
Dispatch ==
  /\ Len(hk.events) < MaxEvents
  /\ hk' = [hk EXCEPT !.events =
              Append(@, [site |-> "call",
                         fired |-> getMergedHooks(hk.optionsHooks, hk.agentHooks, hk.name)])]
  /\ UNCHANGED HkFrame

\* The abort listener dispatches onEnd through getMergedHooks() without the
\* call's options.
ListenerDispatch ==
  /\ Len(hk.events) < MaxEvents
  /\ hk.name = "onEnd"
  /\ hk' = [hk EXCEPT !.events =
              Append(@, [site |-> "listener",
                         fired |-> getMergedHooks(NoHooks, hk.agentHooks, hk.name)])]
  /\ UNCHANGED HkFrame

\* ------------------------------------------------------------------------
\* Step recording (recordStepResults)
\* ------------------------------------------------------------------------
\* A step reported by the model collaborator: its text and the ids of its
\* tool calls and tool results.
Step(text, toolCalls, toolResults) ==
  [text |-> text, toolCalls |-> toolCalls, toolResults |-> toolResults]
StepShapes ==
  {Step(" hi ", <<>>, <<>>), Step("  ", <<"c1">>, <<"c1">>),
   Step("", <<"c1", "c2">>, <<>>), Step(" hi ", <<"c1">>, <<"c1">>)}

\* step.text?.trim()
rawText(t) == t
trimText(t) == CASE t = "  " -> "" [] t = " hi " -> "hi" [] OTHER -> t

\* storedSteps.slice(previouslyPersistedCount)
sliceAll(steps, count) == steps
sliceFrom(steps, count) == SubSeq(steps, count + 1, Len(steps))

\* const stepIndex = previouslyPersistedCount + offset
offsetOnly(previouslyPersistedCount, offset) == offset
stepIndexOf(previouslyPersistedCount, offset) == previouslyPersistedCount + offset

StepRecord(stepIndex, type, id) == [stepIndex |-> stepIndex, type |-> type, id |-> id]

\* The records of one new step: text, then the tool calls, then the tool results.
recordsOfStep(step, stepIndex) ==
  (IF trimText(step.text) # "" THEN <<StepRecord(stepIndex, "text", trimText(step.text))>>
   ELSE <<>>)
  \o [i \in 1..Len(step.toolCalls) |-> StepRecord(stepIndex, "tool_call", step.toolCalls[i])]
  \o [i \in 1..Len(step.toolResults) |->
        StepRecord(stepIndex, "tool_result", step.toolResults[i])]

RECURSIVE recordsOfSteps(_, _, _)
recordsOfSteps(newSteps, previouslyPersistedCount, offset) ==
  IF offset >= Len(newSteps) THEN <<>>
  ELSE recordsOfStep(newSteps[offset + 1], stepIndexOf(previouslyPersistedCount, offset))
       \o recordsOfSteps(newSteps, previouslyPersistedCount, offset + 1)

\* A write handed to the storage collaborator (saveConversationSteps).
Write(records) == [records |-> records, status |-> "pending"]

RsIdle ==
  [steps |-> <<>>, count |-> 0, conv |-> <<>>, writes |-> <<>>, identified |-> TRUE,
   passes |-> 0, newInLastPass |-> 0, logged |-> 0, unhandled |-> 0,
   call |-> "running"]

\* recordStepResults(steps, oc): the state after the call.
recordStepResults(r) ==
  LET newSteps == sliceFrom(r.steps, r.count) IN
  IF Len(r.steps) = 0 \/ Len(newSteps) = 0
  THEN [r EXCEPT !.passes = 1, !.newInLastPass = 0]
  ELSE LET stepRecords == recordsOfSteps(newSteps, r.count, 0) IN
       [r EXCEPT !.count = r.count + Len(newSteps),
                 !.passes = 1,
                 !.newInLastPass = Len(newSteps),
                 !.conv = @ \o [i \in 1..Len(stepRecords) |->
                                  [type |-> stepRecords[i].type, id |-> stepRecords[i].id]],
                 !.writes = IF Len(stepRecords) > 0 /\ r.identified
                            THEN Append(@, Write(stepRecords)) ELSE @]

\* .catch((error) => oc.logger.debug(...))
rethrowWriteError(r) == [r EXCEPT !.unhandled = @ + 1, !.call = "rejected"]
catchWriteError(r) == [r EXCEPT !.logged = @ + 1]

RsFrame == <<heap, eu, tw, ops, ctrl, ext, cx, hk, cl, cs, st, gd, pt, so>>

\* createStepHandler: the step is collected in systemContext.
CollectStep(step) ==
  /\ rs.call = "running"
  /\ Len(rs.steps) < MaxRecSteps
  /\ rs' = [rs EXCEPT !.steps = Append(@, step)]
  /\ UNCHANGED RsFrame

\* A recording pass: at the end of the model invocation, in onFinish, or on
\* the bail path.
RecordPass ==
  /\ rs.call = "running"
  /\ rs' = recordStepResults(rs)
  /\ UNCHANGED RsFrame

\* The storage collaborator settles a write.
WriteResolves(i) ==
  /\ i \in 1..Len(rs.writes)
  /\ rs.writes[i].status = "pending"
  /\ rs' = [rs EXCEPT !.writes[i].status = "saved"]
  /\ UNCHANGED RsFrame

WriteRejects(i) ==
  /\ i \in 1..Len(rs.writes)
  /\ rs.writes[i].status = "pending"
  /\ rs' = catchWriteError([rs EXCEPT !.writes[i].status = "failed"])
  /\ UNCHANGED RsFrame

\* The call returns its result after at least one recording pass.
CallReturns ==
  /\ rs.call = "running"
  /\ rs.passes > 0
  /\ rs' = [rs EXCEPT !.call = "resolved"]
  /\ UNCHANGED RsFrame

\* ------------------------------------------------------------------------
\* Context maps (createOperationContext: context resolution)
\* ------------------------------------------------------------------------
Calls == 1..MaxCalls

\* Map instances: the agent's default map (this.context) and one that a call
\* may allocate (the Map made from the caller's context, or a fresh Map).
AgentMap == 1
MapIds == 1..(MaxCalls + 1)
OwnMap(o) == o + 1

Keys == {"userId", "tenant"}
Absent == "-"
NoEntries == [k \in Keys |-> Absent]
Entry(k, v) == [j \in Keys |-> IF j = k THEN v ELSE Absent]

\* The context an agent is constructed with, the contexts callers supply, the
\* trigger context active at the call, and the values a call writes.
DefaultContents == {Entry("tenant", "d"), [k \in Keys |-> "d"]}
SuppliedContents == {NoEntries, Entry("userId", "u1"), Entry("userId", "u2"),
                     [k \in Keys |-> "u2"]}
TriggerContents == {NoEntries, Entry("tenant", "t")}
WrittenVals == {"w"}

\* for (const [k, v] of src.entries()) if (!context.has(k)) context.set(k, v)
overwrite(m, src) == [k \in Keys |-> IF src[k] # Absent THEN src[k] ELSE m[k]]
backfill(m, src) == [k \in Keys |-> IF m[k] # Absent THEN m[k] ELSE src[k]]

NoCall == [live |-> FALSE, parent |-> 0, ref |-> 0, buffer |-> 0, queue |-> 0]
NoInput == [hasSup |-> FALSE, sup |-> NoEntries, hasDefault |-> FALSE, trig |-> NoEntries]
CxIdle ==
  [maps |-> [i \in MapIds |-> NoEntries], calls |-> [o \in Calls |-> NoCall],
   last |-> NoInput]

CallLive(o) == cx.calls[o].live

\* The Map instance that becomes the context of a new operation.
contextRef(o, parent, hasSup, hasDefault) ==
  IF parent # 0 THEN cx.calls[parent].ref
  ELSE IF hasSup THEN OwnMap(o)
  ELSE IF hasDefault THEN AgentMap
  ELSE OwnMap(o)

\* Its entries after the resolution.
contextEntries(parent, hasSup, sup, hasDefault, trig) ==
  LET runtime == IF hasSup THEN sup ELSE NoEntries
      agent == IF hasDefault THEN cx.maps[AgentMap] ELSE NoEntries
      resolved ==
        IF parent # 0
        THEN backfill(backfill(cx.maps[cx.calls[parent].ref], runtime), agent)
        ELSE IF hasSup THEN backfill(sup, agent)
        ELSE IF hasDefault THEN cx.maps[AgentMap]
        ELSE NoEntries
  IN backfill(resolved, trig)

CtxFrame == <<heap, eu, tw, ops, ctrl, ext, rs, hk, cl, cs, st, gd, pt, so>>

\* createOperationContext on an agent with or without a default context, for
\* a top-level call (parent = 0) or a delegated one.
CreateContext(o, parent, hasSup, sup, hasDefault, trig) ==
  /\ ~CallLive(o)
  /\ \A p \in Calls : p < o => CallLive(p)
  /\ parent # 0 => CallLive(parent)
  /\ hasSup \/ sup = NoEntries
  /\ LET ref == contextRef(o, parent, hasSup, hasDefault) IN
     cx' = [maps |-> [cx.maps EXCEPT ![ref] =
                        contextEntries(parent, hasSup, sup, hasDefault, trig)],
            calls |-> [cx.calls EXCEPT ![o] =
                         [live |-> TRUE, parent |-> parent, ref |-> ref,
                          buffer |-> o, queue |-> o]],
            last |-> [hasSup |-> hasSup, sup |-> sup, hasDefault |-> hasDefault,
                      trig |-> trig]]
  /\ UNCHANGED CtxFrame

\* A hook or a tool of the call writes a key of the operation's context.
WriteContext(o, k, v) ==
  /\ CallLive(o)
  /\ cx' = [cx EXCEPT !.maps[cx.calls[o].ref][k] = v]
  /\ UNCHANGED CtxFrame

InitCtx ==
  /\ cx \in {[CxIdle EXCEPT !.maps[AgentMap] = d] : d \in DefaultContents}
  /\ heap = EmptyHeap
  /\ eu = EuIdle
  /\ tw = TwIdle
  /\ ops = [o \in Ops |-> NoOp]
  /\ ctrl = [c \in Ops |-> NoCtrl]
  /\ ext = NoSignal
  /\ rs = RsIdle
  /\ hk = HkIdle
  /\ cl = ClIdle
  /\ cs = CsIdle
  /\ st = StIdle
  /\ gd = GdIdle
  /\ pt = PtIdle
  /\ so = SoIdle

NextCtx ==
  \/ \E o \in Calls, parent \in 0..MaxCalls, hasSup \in BOOLEAN, sup \in SuppliedContents,
        hasDefault \in BOOLEAN, trig \in TriggerContents :
       CreateContext(o, parent, hasSup, sup, hasDefault, trig)
  \/ \E o \in Calls, k \in Keys, v \in WrittenVals : WriteContext(o, k, v)

SpecCtx == InitCtx /\ [][NextCtx]_vars

InitRec ==
  /\ rs \in {[RsIdle EXCEPT !.identified = b] : b \in BOOLEAN}
  /\ cx = CxIdle
  /\ heap = EmptyHeap
  /\ eu = EuIdle
  /\ tw = TwIdle
  /\ ops = [o \in Ops |-> NoOp]
  /\ ctrl = [c \in Ops |-> NoCtrl]
  /\ ext = NoSignal
  /\ hk = HkIdle
  /\ cl = ClIdle
  /\ cs = CsIdle
  /\ st = StIdle
  /\ gd = GdIdle
  /\ pt = PtIdle
  /\ so = SoIdle

NextRec ==
  \/ \E step \in StepShapes : CollectStep(step)
  \/ RecordPass
  \/ \E i \in 1..MaxRecSteps : WriteResolves(i)
  \/ \E i \in 1..MaxRecSteps : WriteRejects(i)
  \/ CallReturns

SpecRec == InitRec /\ [][NextRec]_vars

InitHooks ==
  /\ \E n \in HookNames :
       hk \in {[HkIdle EXCEPT !.name = n, !.agentHooks = a, !.optionsHooks = c] :
                 a \in {{}, {n}}, c \in {NoHooks, {}, {n}}}
  /\ cx = CxIdle
  /\ rs = RsIdle
  /\ heap = EmptyHeap
  /\ eu = EuIdle
  /\ tw = TwIdle
  /\ ops = [o \in Ops |-> NoOp]
  /\ ctrl = [c \in Ops |-> NoCtrl]
  /\ ext = NoSignal
  /\ cl = ClIdle
  /\ cs = CsIdle
  /\ st = StIdle
  /\ gd = GdIdle
  /\ pt = PtIdle
  /\ so = SoIdle

NextHooks ==
  \/ Dispatch
  \/ ListenerDispatch

SpecHooks == InitHooks /\ [][NextHooks]_vars

InitCall ==
  /\ cl = ClIdle
  /\ cx = CxIdle
  /\ rs = RsIdle
  /\ hk = HkIdle
  /\ heap = EmptyHeap
  /\ eu = EuIdle
  /\ tw = TwIdle
  /\ ops = [o \in Ops |-> NoOp]
  /\ ctrl = [c \in Ops |-> NoCtrl]
  /\ ext = NoSignal
  /\ cs = CsIdle
  /\ st = StIdle
  /\ gd = GdIdle
  /\ pt = PtIdle
  /\ so = SoIdle

NextCall ==
  \/ \E kind \in CallKinds : CallBegin(kind)
  \/ CallInvokesModel
  \/ CallStep
  \/ CallAbortEarly
  \/ \E how \in {"cancel", "bail", "bailRecorded"} : CallAbort(how)
  \/ \E ok, ok2 \in BOOLEAN : GenReturns(ok, ok2)
  \/ \E fromAbort, ok \in BOOLEAN : GenThrows(fromAbort, ok)
  \/ \E ok \in BOOLEAN : StreamThrows(ok)
  \/ \E fromAbort \in BOOLEAN : StreamReportsError(fromAbort)
  \/ \E ok \in BOOLEAN : StreamFinishes(ok)

SpecCall == InitCall /\ [][NextCall]_vars

InitSteps ==
  /\ cs = CsIdle
  /\ cl = ClIdle
  /\ cx = CxIdle
  /\ rs = RsIdle
  /\ hk = HkIdle
  /\ heap = EmptyHeap
  /\ eu = EuIdle
  /\ tw = TwIdle
  /\ ops = [o \in Ops |-> NoOp]
  /\ ctrl = [c \in Ops |-> NoCtrl]
  /\ ext = NoSignal
  /\ st = StIdle
  /\ gd = GdIdle
  /\ pt = PtIdle
  /\ so = SoIdle

NextSteps ==
  \/ \E o \in ChainOps, parent \in 0..MaxCalls : CsCreate(o, parent)
  \/ \E o \in ChainOps : CsCollect(o)
  \/ \E o \in ChainOps : CsRecord(o)
  \/ \E o \in ChainOps : CsAddStep(o)

SpecSteps == InitSteps /\ [][NextSteps]_vars

InitStream ==
  /\ st = StIdle
  /\ cs = CsIdle
  /\ cl = ClIdle
  /\ cx = CxIdle
  /\ rs = RsIdle
  /\ hk = HkIdle
  /\ heap = EmptyHeap
  /\ eu = EuIdle
  /\ tw = TwIdle
  /\ ops = [o \in Ops |-> NoOp]
  /\ ctrl = [c \in Ops |-> NoCtrl]
  /\ ext = NoSignal
  /\ gd = GdIdle
  /\ pt = PtIdle
  /\ so = SoIdle

NextStream ==
  \/ \E g \in StreamGuardrailSets, sub \in BOOLEAN : StBegin(g, sub)
  \/ \E part \in RawParts : StModelPart(part)
  \/ StModelEnd
  \/ \E bail \in BOOLEAN, r \in BailResponses : StAbort(bail, r)
  \/ StReadFull
  \/ StForward
  \/ StReadText
  \/ StFinish

SpecStream == InitStream /\ [][NextStream]_vars

InitGuard ==
  /\ gd = GdIdle
  /\ st = StIdle
  /\ cs = CsIdle
  /\ cl = ClIdle
  /\ cx = CxIdle
  /\ rs = RsIdle
  /\ hk = HkIdle
  /\ heap = EmptyHeap
  /\ eu = EuIdle
  /\ tw = TwIdle
  /\ ops = [o \in Ops |-> NoOp]
  /\ ctrl = [c \in Ops |-> NoCtrl]
  /\ ext = NoSignal
  /\ pt = PtIdle
  /\ so = SoIdle

NextGuard ==
  \/ \E a \in AgentGuardrailSets, c \in CallGuardrailSets : GdBegin(a, c)
  \/ \E path \in {"normal", "bail"}, output \in GuardedOutputs : GdOutput(path, output)
  \/ GdRunGuardrail
  \/ GdReturns

SpecGuard == InitGuard /\ [][NextGuard]_vars

InitPrepare ==
  /\ pt = PtIdle
  /\ gd = GdIdle
  /\ st = StIdle
  /\ cs = CsIdle
  /\ cl = ClIdle
  /\ cx = CxIdle
  /\ rs = RsIdle
  /\ hk = HkIdle
  /\ heap = EmptyHeap
  /\ eu = EuIdle
  /\ tw = TwIdle
  /\ ops = [o \in Ops |-> NoOp]
  /\ ctrl = [c \in Ops |-> NoCtrl]
  /\ ext = NoSignal
  /\ so = SoIdle

NextPrepare ==
  \/ \E static \in ToolLists(StaticNames, "static"), adHoc \in ToolLists(AdHocNames, "adHoc"),
        sub \in BOOLEAN, wm \in BOOLEAN : PtBegin(static, adHoc, sub, wm)
  \/ PtDelegate
  \/ PtWorkingMemory
  \/ PtReturn

SpecPrepare == InitPrepare /\ [][NextPrepare]_vars

InitObject ==
  /\ so = SoIdle
  /\ pt = PtIdle
  /\ gd = GdIdle
  /\ st = StIdle
  /\ cs = CsIdle
  /\ cl = ClIdle
  /\ cx = CxIdle
  /\ rs = RsIdle
  /\ hk = HkIdle
  /\ heap = EmptyHeap
  /\ eu = EuIdle
  /\ tw = TwIdle
  /\ ops = [o \in Ops |-> NoOp]
  /\ ctrl = [c \in Ops |-> NoCtrl]
  /\ ext = NoSignal

NextObject ==
  \/ \E a \in AgentGuardrailSets, c \in CallGuardrailSets : SoBegin(a, c)
  \/ SoStreamError
  \/ \E object \in StreamObjects : SoStreamFinish(object)
  \/ SoGuardrails
  \/ SoFinishReturns
  \/ SoFinishThrows

\* A callback that was started runs to its end.
SpecObject ==
  /\ InitObject
  /\ [][NextObject]_vars
  /\ WF_vars(SoGuardrails)
  /\ WF_vars(SoFinishReturns \/ SoFinishThrows)

RestIdle == cx = CxIdle /\ rs = RsIdle /\ hk = HkIdle /\ cl = ClIdle /\ cs = CsIdle /\ st = StIdle /\ gd = GdIdle /\ pt = PtIdle /\ so = SoIdle

Init ==
  /\ heap = EmptyHeap
  /\ eu = EuIdle
  /\ tw = TwIdle
  /\ ops = [o \in Ops |-> NoOp]
  /\ ctrl = [c \in Ops |-> NoCtrl]
  /\ ext = NoSignal
  /\ RestIdle

Next ==
  \/ \E o \in Ops, parent \in 0..MaxOps, kind \in CallKinds, s \in BOOLEAN :
       Create(o, parent, kind, s)
  \/ \E r \in ExtReasons : ExtAbort(r)
  \/ \E o \in Ops : SetupListener(o)
  \/ \E o \in Ops : PreFail(o)
  \/ \E o \in Ops, b \in BOOLEAN, r \in Responses : StepFinish(o, b, r)
  \/ \E o \in Ops : ToolReturn(o)
  \/ \E o \in Ops, t \in ModelTexts, fr \in FinishReasons : ModelReturn(o, t, fr)
  \/ \E o \in Ops : FinishSuccess(o)
  \/ \E o \in Ops : ModelThrow(o)
  \/ \E o \in Ops : CatchFinish(o)
  \/ \E o \in Ops : StreamError(o)
  \/ \E o \in Ops, t \in ModelTexts, fr \in FinishReasons : StreamFinish(o, t, fr)
  \/ \E o \in Ops : StreamEnd(o)

Spec == Init /\ [][Next]_vars


\* ------------------------------------------------------------------------
\* Properties of a call chain
\* ------------------------------------------------------------------------
LastEnd(o) == ops[o].onEnd[Len(ops[o].onEnd)]
\* The final text a call hands to its caller.
FinalText(o) ==
  IF ops[o].kind = "generateText" THEN ops[o].outcome.text ELSE ops[o].textPromise.text
FinalStatus(o) ==
  IF ops[o].kind = "generateText" THEN ops[o].outcome.status ELSE ops[o].textPromise.status
\* The finish reason a call reports: in its result, and to onEnd.
FinalReasons(o) ==
  {IF ops[o].kind = "generateText" THEN ops[o].outcome.finishReason
   ELSE ops[o].textPromise.finishReason}
  \cup (IF ops[o].onEnd = <<>> THEN {} ELSE {LastEnd(o).finishReason})

\* C4: a call whose step handler saw a tool result tagged bailed: true with
\* response r ends with r as its final output (the returned text, the text
\* promise of a stream, the text given to onEnd) and a finish reason that is a
\* success value, for generateText and streamText and every r.
C4_BailedOutputIsFinal ==
  \A o \in Ops :
    (Done(o) /\ ops[o].bailedResult.set) =>
      /\ FinalStatus(o) = "resolved"
      /\ FinalText(o) = ops[o].bailedResult.response
      /\ ops[o].onEnd # <<>>
      /\ LastEnd(o).text = ops[o].bailedResult.response
      /\ FinalReasons(o) \subseteq SuccessReasons

\* C5: every operation of the chain that terminates because of the bail abort
\* (its model invocation was ended with the bail reason) completes successfully
\* with the bailed response; none rethrows the bail to its caller.
C5_ChainRecoversBail ==
  \A o \in Ops :
    (Done(o) /\ ops[o].kind = "generateText" /\ isBailError(ops[o].err)) =>
      /\ ops[o].outcome.status = "resolved"
      /\ ops[o].outcome.text = ops[o].err.msg

\* C6: the consumers of one operation's abort (abort listener, catch clause of
\* generateText, onFinish, onError, handleError) never disagree: no operation
\* has one consumer that treated the abort as a bail and another that treated
\* it as a failure.
C6_ConsistentClassification ==
  \A o \in Ops : Cardinality({v[2] : v \in ops[o].verdicts}) <= 1

\* C7: a call ended by a bail is handled as a success: onEnd fired last with no
\* error and the bailed output, onError was never invoked, cancellationError
\* is unset.
C7_BailIsSuccess ==
  \A o \in Ops :
    (Done(o) /\ isBailError(ops[o].err)) =>
      /\ ops[o].onEnd # <<>>
      /\ LastEnd(o).error = NoErr
      /\ LastEnd(o).text = ops[o].err.msg
      /\ ops[o].onError = 0
      /\ ops[o].cancellationError = NoErr

\* C8: when the external signal fired while the call was in progress and no
\* bail is recorded, the cancellation error was set exactly once, onEnd was
\* invoked with it, and the promise of the call (of a stream: its text
\* promise) rejected.
C8_ExternalAbortCancels ==
  \A o \in Ops :
    (Done(o) /\ ops[o].extFired /\ ~ops[o].bailedResult.set) =>
      /\ ops[o].cancelSets = 1
      /\ ops[o].cancellationError # NoErr
      /\ \E i \in 1..Len(ops[o].onEnd) : ops[o].onEnd[i].error = ops[o].cancellationError
      /\ FinalStatus(o) = "rejected"

\* C9: a delegated operation uses the abort controller of its parent, so the
\* signals of parent and child have the same aborted state and reason in
\* every state.
C9_SharedController ==
  \A o \in Ops :
    (Live(o) /\ ops[o].parent # 0) =>
      /\ ops[o].ctl = ops[ops[o].parent].ctl
      /\ Aborted(o) = Aborted(ops[o].parent)
      /\ Reason(o) = Reason(ops[o].parent)

\* A delegated operation aborted the chain and its parent's signal is aborted.
C9_Witness ==
  \E o \in Ops :
    Live(o) /\ ops[o].parent # 0 /\ ops[o].bailedResult.set /\ Aborted(ops[o].parent)

\* C10: the firing of the external signal aborts the controller of an
\* operation that bridged it, with the same reason unless the controller was
\* already aborted; an aborted controller keeps its reason; and no abort of a
\* controller changes the external signal.
ExtFires == ~ext.aborted /\ ext'.aborted
C10_Bridge ==
  [][/\ ExtFires =>
          \A o \in Ops :
            (Live(o) /\ ops[o].bridged) =>
              /\ ctrl'[ops[o].ctl].aborted
              /\ IF ctrl[ops[o].ctl].aborted
                 THEN ctrl'[ops[o].ctl] = ctrl[ops[o].ctl]
                 ELSE ctrl'[ops[o].ctl].reason = ext'.reason
     /\ \A c \in Ops : ctrl[c].aborted => ctrl'[c] = ctrl[c]
     /\ (ctrl' # ctrl /\ ~ExtFires) => ext' = ext
    ]_vars

\* The external signal fired during the call and the controller carries its reason.
C10_Witness ==
  \E o \in Ops :
    ops[o].extFired /\ ext.aborted /\ Aborted(o) /\ Reason(o) = ext.reason


\* ------------------------------------------------------------------------
\* Specifications of error-utils.ts: the functions applied to drawn inputs
\* ------------------------------------------------------------------------
ChainIdle ==
  /\ tw = TwIdle
  /\ ops = [o \in Ops |-> NoOp]
  /\ ctrl = [c \in Ops |-> NoCtrl]
  /\ ext = NoSignal
  /\ RestIdle

\* sanitizeErrorValue over every heap, directly and through err.config.
InitSan ==
  /\ heap \in Heaps
  /\ eu = EuIdle
  /\ ChainIdle
  /\ cl = ClIdle
  /\ cs = CsIdle
  /\ st = StIdle
  /\ gd = GdIdle
  /\ pt = PtIdle
  /\ so = SoIdle

NextSan ==
  \/ \E v \in SanInputs : Sanitize(v)
  \/ \E v \in SanInputs, c \in CallIds, t \in ToolNames : Build(ErrorWithConfig(v), c, t)

SpecSan == InitSan /\ [][NextSan]_vars

\* buildToolErrorResult over every Error of the input set.
InitBuild ==
  /\ heap \in {EmptyHeap, DemoHeap}
  /\ eu = EuIdle
  /\ ChainIdle
  /\ cl = ClIdle
  /\ cs = CsIdle
  /\ st = StIdle
  /\ gd = GdIdle
  /\ pt = PtIdle
  /\ so = SoIdle

NextBuild ==
  \E e \in Errors, c \in CallIds, t \in ToolNames : Build(e, c, t)

SpecBuild == InitBuild /\ [][NextBuild]_vars

\* ------------------------------------------------------------------------
\* Properties of error-utils.ts
\* ------------------------------------------------------------------------
\* C2: whenever buildToolErrorResult(e, c, t) returns, the payload has
\* error = true, name = e.name, message = e.message, stack = e.stack,
\* toolCallId = c and toolName = t, whatever own properties e carries.
C2_PayloadFields ==
  (eu.pc = "built" /\ ~eu.res.threw) =>
    LET p == eu.res.payload IN
    /\ p["error"] = OTrue
    /\ p["name"] = OPrim(Str(eu.e.name))
    /\ p["message"] = OPrim(Str(eu.e.message))
    /\ p["stack"] = OPrim(eu.e.stack)
    /\ p["toolCallId"] = OPrim(Str(eu.callId))
    /\ p["toolName"] = OPrim(Str(eu.toolName))

\* The object at address a has a field that points back to the object itself.
SelfRef(a) == heap[a].has /\ heap[a].field = Ref(a)
IsSelfRef(v) == v.t = "ref" /\ SelfRef(v.a)
ConfigOf(e) == e.props["config"]
HasConfig(e) == "config" \in DOMAIN e.props

StringifiedKinds == {"plain", "map"}
IsStringifiedSelfRef(v) == IsSelfRef(v) /\ heap[v.a].kind \in StringifiedKinds
RunningOp ==
  [NoOp EXCEPT !.pc = "model", !.kind = "generateText", !.ctl = OpController(1, 0),
               !.listener = TRUE]

InitTool ==
  /\ heap \in {EmptyHeap, DemoHeap}
  /\ eu = EuIdle
  /\ tw = TwIdle
  /\ ops = [o \in Ops |-> IF o = 1 THEN RunningOp ELSE NoOp]
  /\ ctrl = [c \in Ops |-> NoCtrl]
  /\ ext = NoSignal
  /\ RestIdle

NextTool ==
  \/ \E x \in BOOLEAN, s \in Schemas, c \in CallIds : ToolCall(x, s, c)
  \/ ToolStartReturns
  \/ \E th \in ThrownVals : ToolStartThrows(th)
  \/ ToolHasNoExecute
  \/ \E r \in ResultVals : ToolExecuteReturns(r)
  \/ \E th \in ThrownVals : ToolExecuteThrows(th)
  \/ ToolEndReturns
  \/ \E th \in HookThrows : ToolEndThrows(th)
  \/ ToolCatchEndReturns
  \/ \E th \in HookThrows : ToolCatchEndThrows(th)

SpecTool == InitTool /\ [][NextTool]_vars

\* C1: whatever the pre-execution hook, execute or the output validation
\* throws, and with an onToolEnd hook that throws nothing, the wrapper call
\* resolves with a value and never rejects.
ToolEndHookThrew ==
  tw.thrownBy = "onToolEnd" \/ (tw.outcome = "rejected" /\ tw.res.threw = FALSE)
C1_WrapperNeverRejects ==
  (tw.pc = "done" /\ ~ToolEndHookThrew) => tw.outcome = "resolved"


\* ------------------------------------------------------------------------
\* Properties of the context resolution
\* ------------------------------------------------------------------------
\* The call created by this step, and the first of three entries that is present.
CreatedNow(o) == ~cx.calls[o].live /\ cx'.calls[o].live
FirstPresent(a, b, c) == IF a # Absent THEN a ELSE IF b # Absent THEN b ELSE c

\* C11: a delegated operation's context is the parent's Map instance, whose
\* present keys keep their values and whose missing keys are filled from the
\* caller-supplied map first and the agent's default map second; a top-level
\* operation given a context uses that map, and only its missing keys are
\* filled from the agent's default map.
C11_ContextResolution ==
  [][\A o \in Calls :
       CreatedNow(o) =>
         LET c == cx'.calls[o]
             in == cx'.last
             agent == IF in.hasDefault THEN cx.maps[AgentMap] ELSE NoEntries
         IN IF c.parent # 0
            THEN /\ c.ref = cx.calls[c.parent].ref
                 /\ \A k \in Keys :
                      LET want == FirstPresent(cx.maps[c.ref][k], in.sup[k], agent[k]) IN
                      want # Absent => cx'.maps[c.ref][k] = want
            ELSE in.hasSup =>
                 /\ c.ref # AgentMap
                 /\ \A p \in Calls : cx.calls[p].live => cx.calls[p].ref # c.ref
                 /\ \A k \in Keys :
                      LET want == FirstPresent(in.sup[k], agent[k], Absent) IN
                      want # Absent => cx'.maps[c.ref][k] = want
    ]_vars

\* A delegated call supplied userId = u2 under a parent holding userId = u1,
\* and sees u1.
C11_Witness ==
  \E o \in Calls :
    /\ CallLive(o)
    /\ cx.calls[o].parent # 0
    /\ \A p \in Calls : CallLive(p) => p <= o
    /\ cx.last.hasSup
    /\ cx.last.sup["userId"] = "u2"
    /\ cx.maps[cx.calls[o].ref]["userId"] = "u1"

\* C12: two top-level calls never have the same context map, conversation
\* buffer or persist queue, and a top-level call never has the agent's
\* default map itself as its context.
TopLevel(o) == CallLive(o) /\ cx.calls[o].parent = 0
C12_IndependentCalls ==
  /\ \A o \in Calls : TopLevel(o) => cx.calls[o].ref # AgentMap
  /\ \A o1, o2 \in Calls :
       (TopLevel(o1) /\ TopLevel(o2) /\ o1 # o2) =>
         /\ cx.calls[o1].ref # cx.calls[o2].ref
         /\ cx.calls[o1].buffer # cx.calls[o2].buffer
         /\ cx.calls[o1].queue # cx.calls[o2].queue


\* ------------------------------------------------------------------------
\* Step recording properties
\* ------------------------------------------------------------------------
RECURSIVE HandedToStorage(_)
HandedToStorage(writes) ==
  IF writes = <<>> THEN <<>>
  ELSE writes[1].records \o HandedToStorage(Tail(writes))

Recorded == SubSeq(rs.steps, 1, rs.count)
ConvEntry(rec) == [type |-> rec.type, id |-> rec.id]
ConvEntries(recs) == [i \in 1..Len(recs) |-> ConvEntry(recs[i])]

\* C13: whatever number of recording passes ran over the collected steps, the
\* entries appended to conversationSteps and the records sent to storage are
\* exactly those of one full pass over the recorded steps: no step is
\* converted twice, and the persisted count never exceeds the steps collected.
C13_RecordedOnce ==
  LET onePass == recordsOfSteps(Recorded, 0, 0) IN
  /\ rs.count <= Len(rs.steps)
  /\ rs.conv = ConvEntries(onePass)
  /\ HandedToStorage(rs.writes) = (IF rs.identified THEN onePass ELSE <<>>)

C13_Witness ==
  /\ rs.identified
  /\ rs.count > 1
  /\ rs.count = Len(rs.steps)
  /\ rs.newInLastPass = 0
  /\ Len(HandedToStorage(rs.writes)) > rs.count

HasVisibleText(text) == text \notin {"", "  "}
ExpectedTypes(step) ==
  (IF HasVisibleText(step.text) THEN <<"text">> ELSE <<>>)
  \o [i \in 1..Len(step.toolCalls) |-> "tool_call"]
  \o [i \in 1..Len(step.toolResults) |-> "tool_result"]
ExpectedIds(step) ==
  (IF HasVisibleText(step.text) THEN <<"hi">> ELSE <<>>) \o step.toolCalls \o step.toolResults
AtIndex(recs, n) == SelectSeq(recs, LAMBDA rec : rec.stepIndex = n)

\* C14: every recorded step has, among the records sent to storage, one text
\* record exactly when its trimmed text is non-empty, then one tool_call
\* record per tool call, then one tool_result record per tool result, all
\* carrying the step's position in the overall step sequence as stepIndex.
C14_RecordsOfStep ==
  rs.identified =>
    LET recs == HandedToStorage(rs.writes) IN
    /\ \A i \in 1..Len(recs) : recs[i].stepIndex \in 0..(rs.count - 1)
    /\ \A p \in 1..rs.count :
         LET mine == AtIndex(recs, p - 1) IN
         /\ [i \in 1..Len(mine) |-> mine[i].type] = ExpectedTypes(rs.steps[p])
         /\ [i \in 1..Len(mine) |-> mine[i].id] = ExpectedIds(rs.steps[p])

C14_Witness ==
  /\ rs.identified
  /\ Len(rs.writes) > 1
  /\ \E p \in 1..rs.count : rs.steps[p].text = "  " /\ p > 1
  /\ \E p \in 1..rs.count : Len(ExpectedTypes(rs.steps[p])) > 2

\* C15 as stated: stepIndex strictly increases from each persisted record to
\* the next.
C15_StrictlyIncreasing ==
  LET recs == HandedToStorage(rs.writes) IN
  \A i, j \in 1..Len(recs) : i < j => recs[i].stepIndex < recs[j].stepIndex

\* C15: the records are handed to storage in non-decreasing stepIndex order,
\* the records of one step sharing its index; the index strictly increases
\* from one recording pass to the next.
C15_NonDecreasing ==
  LET recs == HandedToStorage(rs.writes) IN
  /\ \A i, j \in 1..Len(recs) : i < j => recs[i].stepIndex <= recs[j].stepIndex
  /\ \A a, b \in 1..Len(rs.writes) :
       a < b => \A i \in 1..Len(rs.writes[a].records), j \in 1..Len(rs.writes[b].records) :
                  rs.writes[a].records[i].stepIndex < rs.writes[b].records[j].stepIndex

C15_Witness ==
  /\ Len(rs.writes) > 1
  /\ ~C15_StrictlyIncreasing

FailedWrites == {i \in 1..Len(rs.writes) : rs.writes[i].status = "failed"}

\* C16: a rejected storage write is only logged: no rejection is left
\* unhandled, the call is never rejected because of it, and a call that has
\* recorded its steps can still return its result.
C16_WriteFailureOnlyLogged ==
  /\ rs.unhandled = 0
  /\ rs.call # "rejected"
  /\ rs.logged = Cardinality(FailedWrites)
  /\ (rs.call = "running" /\ rs.passes > 0) => ENABLED CallReturns

C16_Witness ==
  /\ FailedWrites # {}
  /\ rs.call = "resolved"

\* ------------------------------------------------------------------------
\* Lifecycle hooks
\* ------------------------------------------------------------------------
TerminalHooks(o) == Len(ops[o].onEnd) + ops[o].onError

\* C17: every call fires exactly one terminal hook out of onEnd and onError:
\* never both, never one of them twice, and a finished call has fired one.
C17_OneTerminalHook ==
  \A o \in Ops :
    /\ TerminalHooks(o) <= 1
    /\ Done(o) => TerminalHooks(o) = 1

\* C18: on every occurrence of an event whose hook is configured at both
\* levels, the call-level hook fires and then the agent-level one; for the
\* two prepare hooks the call-level hook alone runs when present and the
\* agent-level one runs only when the call supplies none.
C18_MergedHooks ==
  \A i \in 1..Len(hk.events) :
    LET fired == hk.events[i].fired
        atCall == Defines(hk.optionsHooks, hk.name)
        atAgent == Defines(hk.agentHooks, hk.name) IN
    IF hk.name \in PrepareHooks
    THEN fired = (IF atCall THEN <<"call">> ELSE IF atAgent THEN <<"agent">> ELSE <<>>)
    ELSE (atCall /\ atAgent) => fired = <<"call", "agent">>

\* ------------------------------------------------------------------------
\* Tool failures and the call chain
\* ------------------------------------------------------------------------
Denied == tw.thrown.isError /\ isToolDeniedError(AsErr(tw.thrown))
RaisedBy(sources) == tw.pc = "done" /\ tw.thrownBy \in sources

\* C19: when the pre-execution hook or the tool raised a ToolDeniedError, the
\* chain's controller is aborted with that error as its reason, execute has
\* not run when the hook raised it, and onEnd received that error as the
\* operation's cancellation error.
C19_DenialAbortsChain ==
  (RaisedBy({"onToolStart", "execute"}) /\ Denied) =>
    /\ Aborted(1)
    /\ Reason(1) = AsErr(tw.thrown)
    /\ tw.thrownBy = "onToolStart" => tw.executed = 0
    /\ ops[1].cancellationError = AsErr(tw.thrown)
    /\ ops[1].onEnd = <<EndCall(AsErr(tw.thrown), "", "")>>

\* C20: a failure of the pre-execution hook, of execute or of the output
\* validation that is not a tool-denied decision ends with the wrapper
\* returning the error payload, and the chain's controller is not aborted.
C20_FailureRecoveredLocally ==
  (RaisedBy({"onToolStart", "wrapper", "execute", "validateToolOutput"}) /\ ~Denied) =>
    /\ tw.outcome = "resolved"
    /\ tw.returned = "payload"
    /\ ~Aborted(1)
    /\ ops[1].isActive

\* C21: when the value execute returned does not satisfy the tool's output
\* schema, the wrapper returns an error payload (error: true) and not the
\* value, and onToolEnd receives the error and no output.
C21_InvalidOutputFails ==
  RaisedBy({"validateToolOutput"}) =>
    /\ tw.outcome = "resolved"
    /\ tw.returned = "payload"
    /\ ~tw.res.threw
    /\ tw.res.payload["error"] = OTrue
    /\ tw.toolEnd = <<ToolEnd(Undefined, createVoltAgentError(AsErr(tw.thrown)))>>

\* ------------------------------------------------------------------------
\* Properties of the completion of a call
\* ------------------------------------------------------------------------
\* C22: a call that has completed, on the success path, the error path or
\* the bail path, has attempted a flush of the buffered messages.
C22_FlushAtCompletion ==
  cl.pc = "done" => Len(cl.flushes) > 0

FlushFailed == \E i \in 1..Len(cl.flushes) : ~cl.flushes[i].ok

\* C23: a failing flush never changes the outcome of a call: a call whose
\* model invocation threw rejects with that error (or with the cancellation
\* error), and a call whose model invocation succeeded still resolves.
C23_FlushNeverChangesOutcome ==
  (cl.pc = "done" /\ FlushFailed) =>
    /\ cl.outcome # Rejected(FlushError)
    /\ cl.path = "success" => cl.outcome.status = "resolved"

\* C24: when the model invocation throws an error that is neither a bail nor
\* caused by cancellation, the call rejects with that same error, onEnd was
\* invoked with an error, onError exactly once, the trace is closed with
\* error status and a flush was attempted.
C24_ErrorPath ==
  (cl.pc = "done" /\ cl.modelThrew = ModelError /\ cl.cancellationError = NoErr) =>
    /\ cl.outcome = Rejected(ModelError)
    /\ \E i \in 1..Len(cl.onEnd) : cl.onEnd[i] # NoErr
    /\ cl.onError = 1
    /\ cl.trace = "error"
    /\ Len(cl.flushes) > 0

C24_Witness ==
  /\ cl.pc = "done"
  /\ cl.modelThrew = ModelError
  /\ cl.cancellationError = NoErr
  /\ cl.steps > 0
  /\ FlushFailed

\* ------------------------------------------------------------------------
\* Cancellation state of an operation
\* ------------------------------------------------------------------------
\* C25: cancellationError is assigned at most once on an operation; it is
\* set once the chain is aborted for a non-bail reason, and it is not set
\* when the abort reason is a bail.
C25_CancellationSetOnce ==
  \A o \in Ops :
    Live(o) =>
      /\ ops[o].cancelSets <= 1
      /\ (Aborted(o) /\ ~isBailError(Reason(o))) =>
           (ops[o].cancelSets = 1 /\ ops[o].cancellationError # NoErr)
      /\ (Aborted(o) /\ isBailError(Reason(o))) => ops[o].cancellationError = NoErr

\* C26: whenever the abort signal of an operation's chain is aborted, the
\* operation's isActive is false.
C26_AbortedIsInactive ==
  \A o \in Ops : (Live(o) /\ Aborted(o)) => ~ops[o].isActive

\* ------------------------------------------------------------------------
\* Properties of conversationSteps
\* ------------------------------------------------------------------------
IsPrefix(a, b) == Len(a) <= Len(b) /\ SubSeq(b, 1, Len(a)) = a

SharedWithParent ==
  \A o \in ChainOps :
    (cs.ref[o] # NoArray /\ cs.parent[o] # 0) => cs.ref[o] = cs.ref[cs.parent[o]]

AppendOnly == \A a \in ChainOps : IsPrefix(cs.arrays[a], cs'.arrays[a])

KeepsReference == \A o \in ChainOps : cs.ref[o] # NoArray => cs'.ref[o] = cs.ref[o]

\* C27: every delegated operation holds the conversationSteps array of its
\* parent, no operation ever replaces its array, and every step of the
\* system only appends to the arrays: an earlier content is a prefix of every
\* later one.
C27_SharedAppendOnly ==
  []SharedWithParent /\ [][AppendOnly /\ KeepsReference]_vars

\* A delegated operation and its parent have both appended to the one array,
\* the parent before and after the delegated operation.
C27_Witness ==
  \E o \in ChainOps :
    /\ cs.parent[o] # 0
    /\ LET a == cs.arrays[cs.ref[o]] IN
       \E i, j, k \in 1..Len(a) :
         /\ i < j /\ j < k
         /\ a[i][1] = cs.parent[o] /\ a[j][1] = o /\ a[k][1] = cs.parent[o]

\* ------------------------------------------------------------------------
\* Properties of streamText
\* ------------------------------------------------------------------------
\* C28: with output guardrails configured and a bail recorded before the
\* stream completed, the text promise resolves to the bailed response.
C28_BailedTextWithGuardrails ==
  (st.pc = "done" /\ st.guardrails # <<>> /\ st.bailed) =>
    st.text = [status |-> "resolved", text |-> st.response]

Declared == [i \in 1..Len(gd.agent \o gd.call) |-> (gd.agent \o gd.call)[i].id]
Invoked == [i \in 1..Len(gd.calls) |-> gd.calls[i].id]
KindOf(id) == IF id = "agent" THEN gd.agent[1].kind ELSE gd.call[1].kind

\* C30: on the normal and on the bail path the output guardrails run one
\* after the other in declaration order, the agent's before the call's, each
\* once and each on the output of the one before it (the first on the output
\* of the path); a call that returns has run them all and returns the last
\* one's output, and a rejection ends the call as an error with no further
\* guardrail run.
C30_GuardrailOrder ==
  gd.pc \in {"guardrails", "done"} =>
    /\ IsPrefix(Invoked, Declared)
    /\ \A i \in 1..Len(gd.calls) :
         gd.calls[i].input =
           IF i = 1 THEN gd.output
           ELSE applyGuardrail(KindOf(gd.calls[i - 1].id), gd.calls[i - 1].input)
    /\ gd.outcome = "resolved" =>
         /\ Invoked = Declared
         /\ \A i \in 1..Len(gd.calls) : KindOf(gd.calls[i].id) # "reject"
         /\ gd.text = IF gd.calls = <<>> THEN gd.output
                      ELSE applyGuardrail(KindOf(gd.calls[Len(gd.calls)].id),
                                          gd.calls[Len(gd.calls)].input)
    /\ (gd.calls # <<>> /\ KindOf(gd.calls[Len(gd.calls)].id) = "reject") =>
         /\ gd.pc = "done"
         /\ gd.outcome = "rejected"
         /\ gd.onEnd = <<>>

C30_Witness ==
  /\ gd.pc = "done"
  /\ gd.path = "bail"
  /\ gd.outcome = "resolved"
  /\ Invoked = <<"agent", "call">>
  /\ KindOf("agent") = "redact"
  /\ KindOf("call") = "mark"
  /\ gd.text = <<"[redacted]", "!">>

\* ------------------------------------------------------------------------
\* Properties of sanitizeErrorValue: termination
\* ------------------------------------------------------------------------
\* C32: sanitizeErrorValue returns on every input; it never recurses until
\* the call stack is exhausted, whether the input is an array that contains
\* itself, directly or through nested arrays, or an array of circular
\* objects.
C32_SanitizeTerminates ==
  eu.pc = "sanitized" => ~Threw(eu.out)

\* ------------------------------------------------------------------------
\* Properties of the tool wrapper: the onToolEnd hook
\* ------------------------------------------------------------------------
\* C33: a finished tool invocation whose error payload could be built has
\* called onToolEnd exactly once, with the result or with the error, also
\* when onToolEnd itself threw; and an invocation that failed returns the
\* error payload instead of rejecting, also when onToolEnd threw while the
\* failure was handled.
C33_ToolEndOncePerInvocation ==
  (tw.pc = "done" /\ ~tw.res.threw) =>
    /\ Len(tw.toolEnd) = 1
    /\ tw.thrownBy # "" => (tw.outcome = "resolved" /\ tw.returned = "payload")

\* ------------------------------------------------------------------------
\* Properties of the hooks of a cancelled call
\* ------------------------------------------------------------------------
\* C36: when a call that was given a call-level onEnd hook is cancelled, the
\* onEnd notification of the abort listener fires the call-level hook and
\* then the agent-level one, when the agent defines it.
C36_CancellationReachesCallHooks ==
  \A i \in 1..Len(hk.events) :
    (hk.events[i].site = "listener" /\ Defines(hk.optionsHooks, "onEnd")) =>
      hk.events[i].fired =
        <<"call">> \o (IF Defines(hk.agentHooks, "onEnd") THEN <<"agent">> ELSE <<>>)

\* ------------------------------------------------------------------------
\* Properties of streamText: one final text
\* ------------------------------------------------------------------------
\* C35: when a streamText call has finished, with or without output
\* guardrails and with or without a bail, the text its text promise resolved
\* to is the text that was passed to onEnd and stored as the output.
C35_OneFinalText ==
  (st.pc = "done" /\ st.text.status = "resolved") => st.onEnd = <<st.text.text>>

\* ------------------------------------------------------------------------
\* Properties of the bridge: a signal aborted before the call
\* ------------------------------------------------------------------------
\* C34: an operation that created its own controller and was given an
\* external signal that was already aborted when the operation was created
\* reaches the model invocation with its controller aborted with the reason
\* of that signal.
C34_AbortedBeforeCreation ==
  \A o \in Ops :
    (/\ ops[o].pc \in {"model", "streaming"}
     /\ ops[o].bridged
     /\ ext.aborted
     /\ ~ops[o].extFired) =>
      /\ Aborted(o)
      /\ Reason(o) = ext.reason

\* ------------------------------------------------------------------------
\* Properties of prepareTools
\* ------------------------------------------------------------------------
NamesOf(tools) == {tools[i].name : i \in 1..Len(tools)}
RuntimeNames ==
  NamesOf(pt.adHoc)
    \cup (IF pt.hasSubAgents THEN {"delegate_task"} ELSE {})
    \cup (IF pt.workingMemory THEN {"update_working_memory"} ELSE {})

\* C31: the names of the prepared tool set are those of the agent's static
\* tools and of the runtime tools (the call's tools, the delegate tool of an
\* agent with sub-agents, the working-memory tools); a name of a runtime tool
\* is prepared from the runtime tool, every other name from the static one.
C31_RuntimeOverridesStatic ==
  pt.pc = "done" =>
    /\ {n \in PreparedNames : pt.prepared[n] # "-"} = NamesOf(pt.static) \cup RuntimeNames
    /\ \A n \in RuntimeNames : pt.prepared[n] \in {"adHoc", "delegate", "memory"}
    /\ \A n \in NamesOf(pt.static) \ RuntimeNames : pt.prepared[n] = "static"

C31_Witness ==
  /\ pt.pc = "done"
  /\ pt.hasSubAgents
  /\ {"shared-tool", "delegate_task", "static-only"} \subseteq NamesOf(pt.static)
  /\ "shared-tool" \in NamesOf(pt.adHoc)
  /\ pt.prepared["shared-tool"] = "adHoc"
  /\ pt.prepared["delegate_task"] = "delegate"
  /\ pt.prepared["static-only"] = "static"

\* ------------------------------------------------------------------------
\* Properties of streamObject: the object promise
\* ------------------------------------------------------------------------
Guarded == so.guardrails # <<>>
StreamEnded == so.ended # "no"
Settled == so.object.status # "pending"
GuardrailedObject == runOutputGuardrails(so.guardrails, so.streamed, <<>>)
ResolvedWith(value) == [status |-> "resolved", value |-> value]

\* C37 as stated: with output guardrails, once the callbacks of the ended
\* stream have run the promise is resolved with the guardrailed object after
\* a finish, and rejected after a stream error, a guardrail rejection or a
\* throwing finish handler.
C37_RejectsWhenHandlerThrows ==
  (Guarded /\ so.pc = "done") =>
    IF so.ended = "finish" /\ ~so.handlerThrew
    THEN so.object = ResolvedWith(GuardrailedObject.text)
    ELSE so.object.status = "rejected"

SettledAsHandled ==
  Guarded =>
    /\ so.pc = "done" => Settled
    /\ so.ended = "error" => so.object.status = "rejected"
    /\ (so.ended = "finish" /\ so.pc \in {"onEnd", "done"}) =>
         IF GuardrailedObject.ok
         THEN so.object = ResolvedWith(GuardrailedObject.text)
         ELSE so.object.status = "rejected"
OnceSettled ==
  [][so.object.status # "pending" => so'.object = so.object]_vars

\* C37: with output guardrails, the object promise settles on every path and
\* never stays pending after the stream has ended: it is rejected when the
\* stream reports an error or a guardrail rejects, and resolved with the
\* guardrailed object as soon as the guardrails have passed; a settled
\* promise keeps its state, so a finish handler that throws after the
\* guardrails passed leaves it resolved.
C37_ObjectPromiseSettles ==
  /\ []SettledAsHandled
  /\ OnceSettled
  /\ (Guarded /\ StreamEnded) ~> Settled

C37_Witness ==
  /\ Guarded
  /\ so.pc = "done"
  /\ so.ended = "finish"
  /\ so.handlerThrew
  /\ so.object = [status |-> "resolved", value |-> <<"[redacted]">>]
====
